---- MODULE Spec2Model ----
(***************************************************************************)
(* A model of the Geofabrik OSM -> CSV converters:                         *)
(*   geofabrik_to_csv_pbf.py  (text-tree and binary-entity backends, main)  *)
(*   geofabrik_to_csv.py      (text-tree backend, process_geofabrik_data)   *)
(*                                                                         *)
(* Strings that the code builds by concatenation are sequences of string   *)
(* pieces (concatenation is \o); a tag set is a function from the keys     *)
(* that are present to their values.                                       *)
(***************************************************************************)
EXTENDS Integers, Sequences, FiniteSets, TLC

\* ------------------------------------------------------------------ bounds
\* Largest number of tags of a tag set handed to the pure functions.
MaxTags == 2
\* Largest global cap (--max-pois) of an aggregate run.
MaxCap == 2
\* Largest number of files of an aggregate run.
MaxFiles == 2
\* Largest number of top-level elements (entities) read during one run.
MaxElems == 3
\* Largest number of top-level elements of a whole document.
MaxDocElems == 2
\* Largest number of top-level elements of the document of one extractor call.
MaxParseElems == 3

\* ---------------------------------------------------------------- tag sets
None == "None"

EmptyTags == [k \in {} |-> ""]

\* dict.get(key, default)
Get(tags, k, d) == IF k \in DOMAIN tags THEN tags[k] ELSE d

\* Python truthiness of a str
Truthy(s) == s # ""

\* tags[k] = v  (dict item assignment)
SetItem(tags, k, v) == [x \in DOMAIN tags \cup {k} |-> IF x = k THEN v ELSE tags[x]]

\* The names the model draws from, and which of them contain 'market' once
\* lower-cased ('market' in name.lower()).
NameValues == {"Cafe X", "Super Market", " "}

ContainsMarket(name) == name \in {"Super Market", "market", "Old market hall"}

\* str.strip() on the names of the model
Strip(s) == IF s = " " THEN "" ELSE s

\* str.title() on the category labels
Title(c) ==
  CASE c = "restaurant" -> "Restaurant"
    [] c = "hotel" -> "Hotel"
    [] c = "hospital" -> "Hospital"
    [] c = "transportation" -> "Transportation"
    [] c = "gas_station" -> "Gas_Station"
    [] c = "shopping" -> "Shopping"
    [] c = "recreation" -> "Recreation"
    [] c = "education" -> "Education"
    [] c = "tourism" -> "Tourism"
    [] c = "services" -> "Services"
    [] OTHER -> c

\* ------------------------------------------- geofabrik_to_csv_pbf.py rules
RestaurantAmenities == {"restaurant", "cafe", "fast_food", "bar", "pub", "food_court", "biergarten"}
HotelAmenities == {"hotel", "guest_house", "hostel", "motel"}
HotelTourism == {"hotel", "hostel", "guest_house", "motel"}
HospitalAmenities == {"hospital", "clinic", "pharmacy", "dentist", "doctors", "veterinary"}
TransportAmenities == {"bus_station", "taxi", "fuel", "ferry_terminal"}
TransportRailway == {"station", "halt", "tram_stop"}
TransportAeroway == {"aerodrome", "helipad"}
GasAmenities == {"fuel", "charging_station"}
ShoppingAmenities == {"marketplace", "shopping_centre"}
RecreationLeisure == {"park", "playground", "sports_centre", "stadium", "swimming_pool", "golf_course"}
RecreationAmenities == {"theatre", "cinema", "arts_centre"}
RecreationTourism == {"zoo", "theme_park"}
EducationAmenities == {"school", "university", "college", "kindergarten", "library"}
TourismTourism == {"attraction", "museum", "monument", "viewpoint", "gallery", "information"}
TourismAmenities == {"place_of_worship"}
ServicesAmenities == {"bank", "atm", "post_office", "police", "fire_station", "courthouse", "townhall"}

\* The shopping condition of categorize_poi_xml: Python parses
\* "a or b or c and d" as "a or b or (c and d)".
ShoppingRuleXml(tags) ==
  \/ Truthy(Get(tags, "shop", ""))
  \/ Get(tags, "amenity", "") \in ShoppingAmenities
  \/ /\ Get(tags, "tourism", "") = "attraction"
     /\ ContainsMarket(Get(tags, "name", ""))

\* A mutant of categorize_poi_xml: the gas station rule is tried before the
\* transportation rule.
categorize_poi_xml_mut(tags) ==
  LET amenity == Get(tags, "amenity", "")
      tourism == Get(tags, "tourism", "")
      healthcare == Get(tags, "healthcare", "")
      railway == Get(tags, "railway", "")
      aeroway == Get(tags, "aeroway", "")
      highway == Get(tags, "highway", "")
      leisure == Get(tags, "leisure", "")
  IN  IF amenity \in RestaurantAmenities THEN "restaurant"
      ELSE IF amenity \in HotelAmenities \/ tourism \in HotelTourism THEN "hotel"
      ELSE IF amenity \in HospitalAmenities \/ Truthy(healthcare) THEN "hospital"
      ELSE IF amenity \in GasAmenities THEN "gas_station"
      ELSE IF \/ amenity \in TransportAmenities
              \/ railway \in TransportRailway
              \/ aeroway \in TransportAeroway
              \/ highway = "bus_stop" THEN "transportation"
      ELSE IF ShoppingRuleXml(tags) THEN "shopping"
      ELSE IF \/ leisure \in RecreationLeisure
              \/ amenity \in RecreationAmenities
              \/ tourism \in RecreationTourism THEN "recreation"
      ELSE IF amenity \in EducationAmenities THEN "education"
      ELSE IF \/ tourism \in TourismTourism
              \/ amenity \in TourismAmenities
              \/ Truthy(Get(tags, "historic", "")) THEN "tourism"
      ELSE IF amenity \in ServicesAmenities THEN "services"
      ELSE None

categorize_poi_xml(tags) ==
  LET amenity == Get(tags, "amenity", "")
      tourism == Get(tags, "tourism", "")
      healthcare == Get(tags, "healthcare", "")
      railway == Get(tags, "railway", "")
      aeroway == Get(tags, "aeroway", "")
      highway == Get(tags, "highway", "")
      leisure == Get(tags, "leisure", "")
  IN  IF amenity \in RestaurantAmenities THEN "restaurant"
      ELSE IF amenity \in HotelAmenities \/ tourism \in HotelTourism THEN "hotel"
      ELSE IF amenity \in HospitalAmenities \/ Truthy(healthcare) THEN "hospital"
      ELSE IF \/ amenity \in TransportAmenities
              \/ railway \in TransportRailway
              \/ aeroway \in TransportAeroway
              \/ highway = "bus_stop" THEN "transportation"
      ELSE IF amenity \in GasAmenities THEN "gas_station"
      ELSE IF ShoppingRuleXml(tags) THEN "shopping"
      ELSE IF \/ leisure \in RecreationLeisure
              \/ amenity \in RecreationAmenities
              \/ tourism \in RecreationTourism THEN "recreation"
      ELSE IF amenity \in EducationAmenities THEN "education"
      ELSE IF \/ tourism \in TourismTourism
              \/ amenity \in TourismAmenities
              \/ Truthy(Get(tags, "historic", "")) THEN "tourism"
      ELSE IF amenity \in ServicesAmenities THEN "services"
      ELSE None

\* A mutant of POIHandler.categorize_poi: 'veterinary' is missing from the
\* healthcare rule.
POIHandler_categorize_poi_mut(tags) ==
  IF Get(tags, "amenity", "") = "veterinary" THEN None ELSE categorize_poi_xml(tags)

\* POIHandler.categorize_poi
POIHandler_categorize_poi(tags) ==
  LET amenity == Get(tags, "amenity", "")
      shop == Get(tags, "shop", "")
      tourism == Get(tags, "tourism", "")
      healthcare == Get(tags, "healthcare", "")
      railway == Get(tags, "railway", "")
      aeroway == Get(tags, "aeroway", "")
      highway == Get(tags, "highway", "")
      leisure == Get(tags, "leisure", "")
  IN  CASE amenity \in {"restaurant", "cafe", "fast_food", "bar", "pub", "food_court", "biergarten"}
             -> "restaurant"
        [] OTHER ->
      CASE \/ amenity \in {"hotel", "guest_house", "hostel", "motel"}
           \/ tourism \in {"hotel", "hostel", "guest_house", "motel"}
             -> "hotel"
        [] OTHER ->
      CASE \/ amenity \in {"hospital", "clinic", "pharmacy", "dentist", "doctors", "veterinary"}
           \/ Truthy(healthcare)
             -> "hospital"
        [] OTHER ->
      CASE \/ amenity \in {"bus_station", "taxi", "fuel", "ferry_terminal"}
           \/ railway \in {"station", "halt", "tram_stop"}
           \/ aeroway \in {"aerodrome", "helipad"}
           \/ highway = "bus_stop"
             -> "transportation"
        [] OTHER ->
      CASE amenity \in {"fuel", "charging_station"}
             -> "gas_station"
        [] OTHER ->
      CASE \/ Truthy(shop)
           \/ amenity \in {"marketplace", "shopping_centre"}
           \/ (tourism = "attraction" /\ ContainsMarket(Get(tags, "name", "")))
             -> "shopping"
        [] OTHER ->
      CASE \/ leisure \in {"park", "playground", "sports_centre", "stadium", "swimming_pool", "golf_course"}
           \/ amenity \in {"theatre", "cinema", "arts_centre"}
           \/ tourism \in {"zoo", "theme_park"}
             -> "recreation"
        [] OTHER ->
      CASE amenity \in {"school", "university", "college", "kindergarten", "library"}
             -> "education"
        [] OTHER ->
      CASE \/ tourism \in {"attraction", "museum", "monument", "viewpoint", "gallery", "information"}
           \/ amenity \in {"place_of_worship"}
           \/ Truthy(Get(tags, "historic", ""))
             -> "tourism"
        [] OTHER ->
      CASE amenity \in {"bank", "atm", "post_office", "police", "fire_station", "courthouse", "townhall"}
             -> "services"
        [] OTHER -> None

\* ------------------------------------------------------------ descriptions
\* '; '.join(parts), every part a sequence of string pieces
RECURSIVE Join(_)
Join(parts) ==
  IF parts = <<>> THEN <<>>
  ELSE IF Len(parts) = 1 THEN Head(parts)
  ELSE Head(parts) \o <<"; ">> \o Join(Tail(parts))

\* if key in tags: parts.append(f"{label}{tags[key]}")
Part(tags, k, label) ==
  IF k \in DOMAIN tags THEN << <<label, tags[k]>> >> ELSE <<>>

\* A mutant of Sentinel: another placeholder text.
Sentinel_mut == <<"Point of Interest">>

Sentinel == <<"OSM Point of Interest">>

\* A mutant of get_description_xml: the shop field comes before the amenity
\* field.
get_description_xml_mut(tags) ==
  LET parts == Part(tags, "shop", "Shop: ")
               \o Part(tags, "amenity", "Amenity: ")
               \o Part(tags, "tourism", "Tourism: ")
               \o Part(tags, "addr:street", "Street: ")
               \o Part(tags, "addr:city", "City: ")
               \o Part(tags, "cuisine", "Cuisine: ")
               \o (IF "description" \in DOMAIN tags
                   THEN << <<tags["description"]>> >> ELSE <<>>)
  IN  IF parts # <<>> THEN Join(parts) ELSE Sentinel

get_description_xml(tags) ==
  LET parts == Part(tags, "amenity", "Amenity: ")
               \o Part(tags, "shop", "Shop: ")
               \o Part(tags, "tourism", "Tourism: ")
               \o Part(tags, "addr:street", "Street: ")
               \o Part(tags, "addr:city", "City: ")
               \o Part(tags, "cuisine", "Cuisine: ")
               \o (IF "description" \in DOMAIN tags
                   THEN << <<tags["description"]>> >> ELSE <<>>)
  IN  IF parts # <<>> THEN Join(parts) ELSE Sentinel

\* POIHandler.get_description
POIHandler_get_description(tags) ==
  LET p1 == IF "amenity" \in DOMAIN tags THEN << <<"Amenity: ", tags["amenity"]>> >> ELSE <<>>
      p2 == IF "shop" \in DOMAIN tags THEN Append(p1, <<"Shop: ", tags["shop"]>>) ELSE p1
      p3 == IF "tourism" \in DOMAIN tags THEN Append(p2, <<"Tourism: ", tags["tourism"]>>) ELSE p2
      p4 == IF "addr:street" \in DOMAIN tags THEN Append(p3, <<"Street: ", tags["addr:street"]>>) ELSE p3
      p5 == IF "addr:city" \in DOMAIN tags THEN Append(p4, <<"City: ", tags["addr:city"]>>) ELSE p4
      p6 == IF "cuisine" \in DOMAIN tags THEN Append(p5, <<"Cuisine: ", tags["cuisine"]>>) ELSE p5
      p7 == IF "description" \in DOMAIN tags THEN Append(p6, <<tags["description"]>>) ELSE p6
  IN  IF p7 # <<>> THEN Join(p7) ELSE Sentinel

\* --------------------------------------------- geofabrik_to_csv.py rules
\* A mutant of categorize_poi: fuel is not in the transportation list.
categorize_poi_mut(tags) ==
  LET amenity == Get(tags, "amenity", "")
      shop == Get(tags, "shop", "")
      tourism == Get(tags, "tourism", "")
      healthcare == Get(tags, "healthcare", "")
  IN  IF amenity \in {"restaurant", "cafe", "fast_food", "bar", "pub", "food_court"} THEN "restaurant"
      ELSE IF \/ amenity \in {"hotel", "guest_house", "hostel", "motel"}
              \/ tourism \in {"hotel", "hostel", "guest_house"} THEN "hotel"
      ELSE IF \/ amenity \in {"hospital", "clinic", "pharmacy", "dentist", "doctors"}
              \/ Truthy(healthcare) THEN "hospital"
      ELSE IF amenity \in {"bus_station", "taxi", "parking", "ferry_terminal"} THEN "transportation"
      ELSE IF amenity \in {"school", "university", "college", "library"} THEN "education"
      ELSE IF Truthy(shop) \/ amenity \in {"marketplace", "mall"} THEN "shopping"
      ELSE IF amenity \in {"bank", "atm"} THEN "bank"
      ELSE IF amenity \in {"police", "fire_station", "hospital"} THEN "emergency"
      ELSE IF tourism \in {"attraction", "museum", "gallery", "zoo", "theme_park"} THEN "tourism"
      ELSE IF amenity \in {"cinema", "theatre", "casino", "nightclub"} THEN "entertainment"
      ELSE "other"

\* categorize_poi of geofabrik_to_csv.py ('other' when no rule matches)
categorize_poi(tags) ==
  LET amenity == Get(tags, "amenity", "")
      shop == Get(tags, "shop", "")
      tourism == Get(tags, "tourism", "")
      healthcare == Get(tags, "healthcare", "")
  IN  IF amenity \in {"restaurant", "cafe", "fast_food", "bar", "pub", "food_court"} THEN "restaurant"
      ELSE IF \/ amenity \in {"hotel", "guest_house", "hostel", "motel"}
              \/ tourism \in {"hotel", "hostel", "guest_house"} THEN "hotel"
      ELSE IF \/ amenity \in {"hospital", "clinic", "pharmacy", "dentist", "doctors"}
              \/ Truthy(healthcare) THEN "hospital"
      ELSE IF amenity \in {"bus_station", "taxi", "fuel", "parking", "ferry_terminal"} THEN "transportation"
      ELSE IF amenity \in {"school", "university", "college", "library"} THEN "education"
      ELSE IF Truthy(shop) \/ amenity \in {"marketplace", "mall"} THEN "shopping"
      ELSE IF amenity \in {"bank", "atm"} THEN "bank"
      ELSE IF amenity \in {"police", "fire_station", "hospital"} THEN "emergency"
      ELSE IF tourism \in {"attraction", "museum", "gallery", "zoo", "theme_park"} THEN "tourism"
      ELSE IF amenity \in {"cinema", "theatre", "casino", "nightclub"} THEN "entertainment"
      ELSE "other"

\* The description of parse_osm_xml in geofabrik_to_csv.py:
\* (amenity or shop or tourism) + " (cuisine)", stripped.
CsvDescription(tags) ==
  LET amenity == Get(tags, "amenity", "")
      shop == Get(tags, "shop", "")
      base == IF Truthy(amenity) THEN amenity
              ELSE IF Truthy(shop) THEN shop ELSE Get(tags, "tourism", "")
      cuisine == Get(tags, "cuisine", "")
  IN  IF Truthy(cuisine)
      THEN (IF Truthy(base) THEN <<base, " (">> ELSE <<"(">>) \o <<cuisine, ")">>
      ELSE <<base>>

\* ------------------------------------------------------- source elements
\* An XML attribute that elem.get() reads: missing (None), numeric text, or
\* text that float() rejects.
NoAttr == [kind |-> "missing", val |-> 0]
Num(n) == [kind |-> "num", val |-> n]
BadNum == [kind |-> "text", val |-> 0]

\* A top-level element of a document with its <tag k= v=> children.
Elem(t, la, lo, tg) == [tag |-> t, lat |-> la, lon |-> lo, tags |-> tg]

Tags1(k, v) == SetItem(EmptyTags, k, v)
Tags2(k1, v1, k2, v2) == SetItem(Tags1(k1, v1), k2, v2)

\* The elements the aggregate run draws its documents from.
NamedCafe == Elem("node", Num(10), Num(20), Tags2("amenity", "restaurant", "name", "Cafe X"))
Grocer == Elem("node", Num(20), Num(30), Tags2("shop", "supermarket", "name", "Super Market"))
Museum == Elem("node", Num(50), Num(20), Tags1("tourism", "museum"))
BareNode == Elem("node", Num(30), Num(40), EmptyTags)
NoLatShop == Elem("node", NoAttr, Num(20), Tags2("shop", "supermarket", "name", "Super Market"))
BankWay == Elem("way", NoAttr, NoAttr, Tags1("amenity", "bank"))

Elements == {NamedCafe, Grocer, Museum, BareNode, NoLatShop, BankWay}

\* The binary decoder hands node() only nodes, each with a location.
PbfNodes == {e \in Elements : e.tag = "node" /\ e.lat.kind = "num" /\ e.lon.kind = "num"}

\* The bounding boxes (min_lat, max_lat, min_lng, max_lng) of a run; <<>> is
\* None.
Box == <<0, 40, 0, 40>>
BoundsValues == {<<>>, Box}

\* A mutant of InBounds: the box without its boundary.
InBounds_mut(bnds, lat, lon) ==
  bnds[1] < lat /\ lat < bnds[2] /\ bnds[3] < lon /\ lon < bnds[4]

InBounds(bnds, lat, lon) ==
  bnds[1] <= lat /\ lat <= bnds[2] /\ bnds[3] <= lon /\ lon <= bnds[4]

\* The <tag> children that "if k and v" keeps.
XmlTags(tags) == [k \in {x \in DOMAIN tags : Truthy(x) /\ Truthy(tags[x])} |-> tags[k]]

\* A mutant of Merge: the children's tags are not stored.
Merge_mut(ct, tags) == ct

\* current_tags[k] = v for every kept child
Merge(ct, tags) == [k \in DOMAIN ct \cup DOMAIN tags |-> IF k \in DOMAIN tags THEN tags[k] ELSE ct[k]]

\* ------------------------------------- parse_osm_xml, geofabrik_to_csv_pbf
\* A mutant of PoiRecord: the category field holds a fixed text.
PoiRecord_mut(name, category, lat, lon, description) ==
  [name |-> name, category |-> "poi", latitude |-> lat, longitude |-> lon,
   description |-> description]

\* The POI record of lines 322-331 and 55-69.
PoiRecord(name, category, lat, lon, description) ==
  [name |-> name, category |-> category, latitude |-> lat, longitude |-> lon,
   description |-> description]

\* tags.get('name', f"Unknown {category.title()}")
NameOrUnknown(tags, category) ==
  IF "name" \in DOMAIN tags THEN <<tags["name"]>> ELSE <<"Unknown ", Title(category)>>

\* A mutant of CapReached: the cap is compared with > instead of >=.
CapReached_mut(cap, n) == cap # 0 /\ n > cap

\* if max_pois and len(pois) >= max_pois
CapReached(cap, n) == cap # 0 /\ n >= cap

\* One top-level element of the for loop of parse_osm_xml: its start event,
\* the start events of its <tag> children, and its end event.  cn is
\* current_node (<<>> for None), ct is current_tags, ps is pois.  ctl says
\* how the loop goes on: "next", "break" or "raise"; categorized says whether
\* the pass called categorize_poi_xml (line 320).
XmlElement(el, cn, ct, ps, bnds, cap) ==
  LET fresh == el.tag = "node" /\ el.lat.kind # "missing" /\ el.lon.kind # "missing"
      raises == fresh /\ (el.lat.kind = "text" \/ el.lon.kind = "text")
      cn1 == IF fresh THEN << [lat |-> el.lat.val, lon |-> el.lon.val] >> ELSE cn
      ct0 == IF fresh THEN EmptyTags ELSE ct
      ct1 == IF cn1 # <<>> THEN Merge(ct0, XmlTags(el.tags)) ELSE ct0
      category == categorize_poi_xml(ct1)
      poi == PoiRecord(NameOrUnknown(ct1, category), category, cn1[1].lat, cn1[1].lon,
                       get_description_xml(ct1))
  IN  IF raises
        THEN [current_node |-> cn, current_tags |-> ct, pois |-> ps, ctl |-> "raise",
              categorized |-> FALSE]
      ELSE IF ~(el.tag = "node" /\ cn1 # <<>> /\ ct1 # EmptyTags)
        THEN [current_node |-> cn1, current_tags |-> ct1, pois |-> ps, ctl |-> "next",
              categorized |-> FALSE]
      ELSE IF bnds # <<>> /\ ~InBounds(bnds, cn1[1].lat, cn1[1].lon)
        THEN [current_node |-> <<>>, current_tags |-> EmptyTags, pois |-> ps, ctl |-> "next",
              categorized |-> FALSE]
      ELSE IF category = None
        THEN [current_node |-> <<>>, current_tags |-> EmptyTags, pois |-> ps, ctl |-> "next",
              categorized |-> TRUE]
      ELSE IF CapReached(cap, Len(ps) + 1)
        THEN [current_node |-> cn1, current_tags |-> ct1, pois |-> Append(ps, poi),
              ctl |-> "break", categorized |-> TRUE]
      ELSE [current_node |-> <<>>, current_tags |-> EmptyTags, pois |-> Append(ps, poi),
            ctl |-> "next", categorized |-> TRUE]

\* ------------------------------------------------------- POIHandler.node
\* One node() callback; late says that it returned at the cap check of
\* lines 36-37, categorized that it called categorize_poi (line 51).
HandlerNode(n, ps, bnds, cap) ==
  LET lat == n.lat.val
      lon == n.lon.val
      tags == n.tags
      category == POIHandler_categorize_poi(tags)
      poi == PoiRecord(NameOrUnknown(tags, category), category, lat, lon,
                       POIHandler_get_description(tags))
  IN  IF CapReached(cap, Len(ps))
        THEN [pois |-> ps, late |-> TRUE, categorized |-> FALSE]
      ELSE IF bnds # <<>> /\ ~InBounds(bnds, lat, lon)
        THEN [pois |-> ps, late |-> FALSE, categorized |-> FALSE]
      ELSE IF tags = EmptyTags THEN [pois |-> ps, late |-> FALSE, categorized |-> FALSE]
      ELSE IF category = None THEN [pois |-> ps, late |-> FALSE, categorized |-> TRUE]
      ELSE IF ~(-90 <= lat /\ lat <= 90 /\ -180 <= lon /\ lon <= 180)
        THEN [pois |-> ps, late |-> FALSE, categorized |-> TRUE]
      ELSE [pois |-> Append(ps, poi), late |-> FALSE, categorized |-> TRUE]

\* ----------------------------------------- parse_osm_xml, geofabrik_to_csv
\* One top-level element of the for loop of parse_osm_xml.  ce is
\* current_element (None or 'node' or 'way'), la and lo are current_lat and
\* current_lon.
CsvElement(el, ce, la, lo, ct, ps, cap) ==
  LET isNode == el.tag = "node"
      isWay == el.tag = "way"
      ce1 == IF isNode THEN "node" ELSE IF isWay THEN "way" ELSE ce
      la1 == IF isNode THEN el.lat ELSE la
      lo1 == IF isNode THEN el.lon ELSE lo
      ct0 == IF isNode \/ isWay THEN EmptyTags ELSE ct
      ct1 == IF ce1 # None THEN Merge(ct0, XmlTags(el.tags)) ELSE ct0
      name == Get(ct1, "name", "")
      isPoi == /\ isNode /\ la1.kind # "missing" /\ lo1.kind # "missing"
               /\ Truthy(name)
               /\ \/ Truthy(Get(ct1, "amenity", ""))
                  \/ Truthy(Get(ct1, "shop", ""))
                  \/ Truthy(Get(ct1, "tourism", ""))
                  \/ Truthy(Get(ct1, "healthcare", ""))
      poi == PoiRecord(<<Strip(name)>>, categorize_poi(ct1), la1.val, lo1.val,
                       CsvDescription(ct1))
      reset == isNode \/ isWay
      ce2 == IF reset THEN None ELSE ce1
      la2 == IF reset THEN NoAttr ELSE la1
      lo2 == IF reset THEN NoAttr ELSE lo1
      ct2 == IF reset THEN EmptyTags ELSE ct1
  IN  IF isPoi /\ (la1.kind = "text" \/ lo1.kind = "text")
        THEN [current_element |-> ce1, current_lat |-> la1, current_lon |-> lo1,
              current_tags |-> ct1, pois |-> ps, ctl |-> "raise"]
      ELSE IF isPoi /\ Len(ps) + 1 >= cap
        THEN [current_element |-> ce1, current_lat |-> la1, current_lon |-> lo1,
              current_tags |-> ct1, pois |-> Append(ps, poi), ctl |-> "break"]
      ELSE [current_element |-> ce2, current_lat |-> la2, current_lon |-> lo2,
            current_tags |-> ct2, pois |-> IF isPoi THEN Append(ps, poi) ELSE ps,
            ctl |-> "next"]

\* The rows csv.DictReader reads back from the temporary CSV that
\* parse_osm_xml wrote: every field is text.
FloatText(x) == <<"float", x>>

CsvRow(poi) ==
  [poi EXCEPT !.latitude = FloatText(@), !.longitude = FloatText(@)]

CsvRows(ps) == [j \in 1..Len(ps) |-> CsvRow(ps[j])]

\* ------------------------------------------------------------------ state
VARIABLES
  prog,              \* "pbf": main of geofabrik_to_csv_pbf.py;
                     \* "csv": process_geofabrik_data of geofabrik_to_csv.py
  max_pois,          \* the global cap (args.max_pois, max_pois)
  bounds,            \* args.bounds: <<>> (None) or a box
  OSMIUM_AVAILABLE,  \* whether "import osmium" succeeded
  osm_files,         \* the files of the run in order, each by its kind
  input_exists,      \* whether the input path exists (input_path.exists())
  pc,                \* where the run is
  i,                 \* the number of the file of the current loop iteration
  all_pois,          \* the accumulated records
  total_pois,        \* total_pois of process_geofabrik_data
  file_max_pois,     \* max_pois of the running parse_osm_xml / POIHandler
  pois,              \* pois of the running parse / handler.pois
  nread,             \* elements read so far in the run
  current_node, current_tags,                  \* locals of parse_osm_xml
  current_element, current_lat, current_lon,   \* locals of parse_osm_xml (csv)
  retained,          \* elements attached to the root of the running text parse
  late_calls,        \* node() callbacks of the current file that returned at the cap check
  log,               \* per file the loop has left: the cap it got, the records
                     \* its parser accepted, and how it ended
  output,            \* the rows written to the output CSV; <<>> before
  written,           \* whether the output CSV was written
  ret,               \* the return value, "" while running
  tags, cstep, category, description, hcategory, hdescription, ccategory,
                     \* the tag set handed to the pure functions and their results
  docs, caps, counts, \* whole documents, two caps and the two runs' record counts
  mrun,              \* the program, the bounds and the decoder of the two runs
  pdoc, pbounds, pcap, extractor, records,
                     \* the elements of one document, the bounds and the cap of
                     \* one extractor call, the extractor called and what it returned
  categorized,       \* the coordinates the call handed the Categorizer tags for
  wpois, csvfile, readback, wstep
                     \* the records handed to write_csv, the bytes of the file it
                     \* wrote, what a DictReader read back, and the step reached

runvars == <<prog, max_pois, bounds, OSMIUM_AVAILABLE, osm_files, input_exists, pc, i, all_pois,
             total_pois, file_max_pois, pois, nread, current_node, current_tags,
             current_element, current_lat, current_lon, retained, late_calls, log, output,
             written, ret>>
catvars == <<tags, cstep, category, description, hcategory, hdescription, ccategory>>
monovars == <<docs, caps, counts, mrun>>
parsevars == <<pdoc, pbounds, pcap, extractor, records, categorized>>
writevars == <<wpois, csvfile, readback, wstep>>
harness == <<catvars, monovars, parsevars, writevars>>
vars == <<runvars, catvars, monovars, parsevars, writevars>>

CapValues == -1..MaxCap

FileKinds == {"osm", "pbf"}

FileLists == UNION {[1..n -> FileKinds] : n \in 0..MaxFiles}

\* The state in which a group of variables rests while another
\* specification runs.
CatIdle ==
  /\ tags = EmptyTags /\ cstep = 0 /\ category = "" /\ description = <<>>
  /\ hcategory = "" /\ hdescription = <<>> /\ ccategory = ""

MonoIdle == docs = <<>> /\ caps = <<>> /\ counts = <<>> /\ mrun = <<>>

ParseIdle ==
  /\ pdoc = <<>> /\ pbounds = <<>> /\ pcap = 0 /\ extractor = "" /\ records = <<>>
  /\ categorized = <<>>

WriteIdle == wpois = <<>> /\ csvfile = <<>> /\ readback = <<>> /\ wstep = 0

RunIdle ==
  /\ prog = "" /\ max_pois = 0 /\ bounds = <<>> /\ OSMIUM_AVAILABLE = TRUE
  /\ osm_files = <<>> /\ input_exists = TRUE
  /\ pc = "idle" /\ i = 0 /\ all_pois = <<>> /\ total_pois = 0
  /\ file_max_pois = 0 /\ pois = <<>> /\ nread = 0
  /\ current_node = <<>> /\ current_tags = EmptyTags
  /\ current_element = None /\ current_lat = NoAttr /\ current_lon = NoAttr
  /\ retained = 0
  /\ late_calls = 0 /\ log = <<>> /\ output = <<>> /\ written = FALSE /\ ret = ""

\* The run before the input path is looked up; osm_files holds the files
\* that are listed when the path exists (lines 383-408 of
\* geofabrik_to_csv_pbf.py, 190-215 of geofabrik_to_csv.py).
RunInit ==
  /\ prog \in {"pbf", "csv"}
  /\ max_pois \in CapValues
  /\ bounds \in IF prog = "pbf" THEN BoundsValues ELSE {<<>>}
  /\ OSMIUM_AVAILABLE \in IF prog = "pbf" THEN BOOLEAN ELSE {TRUE}
  /\ input_exists \in BOOLEAN
  /\ osm_files \in IF input_exists THEN FileLists ELSE {<<>>}
  /\ pc = "start" /\ i = 0 /\ all_pois = <<>> /\ total_pois = 0
  /\ file_max_pois = 0 /\ pois = <<>> /\ nread = 0
  /\ current_node = <<>> /\ current_tags = EmptyTags
  /\ current_element = None /\ current_lat = NoAttr /\ current_lon = NoAttr
  /\ retained = 0
  /\ late_calls = 0 /\ log = <<>> /\ output = <<>> /\ written = FALSE /\ ret = ""

parservars == <<current_node, current_tags, current_element, current_lat, current_lon,
                retained>>
configvars == <<prog, max_pois, bounds, OSMIUM_AVAILABLE, osm_files, input_exists>>

LogEntry(cap, accepted, outcome) == [cap |-> cap, accepted |-> accepted, outcome |-> outcome]

\* A mutant of SourceNotFound: the run reports success.
SourceNotFound_mut ==
  /\ pc = "start" /\ ~input_exists
  /\ pc' = "done"
  /\ ret' = (IF prog = "pbf" THEN "0" ELSE "True")
  /\ UNCHANGED <<configvars, i, all_pois, total_pois, file_max_pois, pois, nread,
                 parservars, late_calls, log, output, written>>
  /\ UNCHANGED harness

\* "if not input_path.exists(): return 1 / False" (lines 385-387 of
\* geofabrik_to_csv_pbf.py, 192-194 of geofabrik_to_csv.py).
SourceNotFound ==
  /\ pc = "start" /\ ~input_exists
  /\ pc' = "done"
  /\ ret' = (IF prog = "pbf" THEN "1" ELSE "False")
  /\ UNCHANGED <<configvars, i, all_pois, total_pois, file_max_pois, pois, nread,
                 parservars, late_calls, log, output, written>>
  /\ UNCHANGED harness

\* "if not osm_files: return 1 / False", else the for loop is entered.
EnterLoop ==
  /\ pc = "start" /\ input_exists
  /\ IF osm_files = <<>>
       THEN pc' = "done" /\ ret' = (IF prog = "pbf" THEN "1" ELSE "False")
       ELSE pc' = "loop" /\ ret' = ret
  /\ i' = 1
  /\ UNCHANGED <<configvars, all_pois, total_pois, file_max_pois, pois, nread,
                 parservars, late_calls, log, output, written>>
  /\ UNCHANGED harness

\* The for loop has no file left.
LoopExhausted ==
  /\ pc = "loop" /\ i > Len(osm_files)
  /\ pc' = "finish"
  /\ UNCHANGED <<configvars, i, all_pois, total_pois, file_max_pois, pois, nread,
                 parservars, late_calls, log, output, written, ret>>
  /\ UNCHANGED harness

\* ------------------------------------------ main, geofabrik_to_csv_pbf.py
\* The head of one loop iteration, lines 410-422: a .pbf file without the
\* decoder ends the run with 1, any other file is handed to its parser with
\* args.max_pois - len(all_pois).
MainNextFile ==
  /\ prog = "pbf" /\ pc = "loop" /\ i <= Len(osm_files)
  /\ IF osm_files[i] = "pbf" /\ ~OSMIUM_AVAILABLE
       THEN /\ pc' = "done" /\ ret' = "1"
            /\ log' = Append(log, LogEntry(max_pois - Len(all_pois), 0, "unavailable"))
            /\ UNCHANGED <<file_max_pois, pois, late_calls>>
       ELSE /\ pc' = (IF osm_files[i] = "pbf" THEN "pbf" ELSE "xml")
            /\ file_max_pois' = max_pois - Len(all_pois)
            /\ pois' = <<>>
            /\ late_calls' = 0
            /\ UNCHANGED <<ret, log>>
  /\ current_node' = <<>> /\ current_tags' = EmptyTags
  /\ retained' = 0
  /\ UNCHANGED <<configvars, i, all_pois, total_pois, nread, current_element,
                 current_lat, current_lon, output, written>>
  /\ UNCHANGED harness

\* One pass of the for loop of parse_osm_xml over the next element; on the
\* break the function returns pois, on an exception it returns [].  The
\* parser attaches the element to the root; elem.clear() (line 343) empties
\* the element and leaves it attached.
XmlRead(el) ==
  /\ prog = "pbf" /\ pc = "xml" /\ nread < MaxElems
  /\ LET r == XmlElement(el, current_node, current_tags, pois, bounds, file_max_pois)
     IN  /\ current_node' = r.current_node
         /\ current_tags' = r.current_tags
         /\ pois' = (IF r.ctl = "raise" THEN <<>> ELSE r.pois)
         /\ pc' = (IF r.ctl = "next" THEN "xml" ELSE "returned")
         /\ log' = (IF r.ctl = "next" THEN log
                    ELSE Append(log, LogEntry(file_max_pois, Len(r.pois),
                                              IF r.ctl = "raise" THEN "failed" ELSE "ok")))
  /\ nread' = nread + 1
  /\ retained' = retained + 1
  /\ UNCHANGED <<configvars, i, all_pois, total_pois, file_max_pois, current_element,
                 current_lat, current_lon, late_calls, output, written, ret>>
  /\ UNCHANGED harness

\* The document ends: the end of the root element is the last event, its
\* elem.clear() empties the root, and parse_osm_xml returns pois (line 349).
XmlEof ==
  /\ prog = "pbf" /\ pc = "xml"
  /\ pc' = "returned"
  /\ retained' = 0
  /\ log' = Append(log, LogEntry(file_max_pois, Len(pois), "ok"))
  /\ UNCHANGED <<configvars, i, all_pois, total_pois, file_max_pois, pois, nread,
                 current_node, current_tags, current_element, current_lat, current_lon,
                 late_calls, output, written, ret>>
  /\ UNCHANGED harness

\* A mutant of XmlParseError: the except clause returns the records accepted
\* so far instead of [].
XmlParseError_mut ==
  /\ prog = "pbf" /\ pc = "xml"
  /\ pc' = "returned"
  /\ log' = Append(log, LogEntry(file_max_pois, Len(pois), "failed"))
  /\ UNCHANGED <<configvars, i, all_pois, total_pois, file_max_pois, pois, nread,
                 parservars, late_calls, output, written, ret>>
  /\ UNCHANGED harness

\* The file cannot be opened or its markup is malformed at this point:
\* "except Exception: return []" (lines 345-347).
XmlParseError ==
  /\ prog = "pbf" /\ pc = "xml"
  /\ pc' = "returned"
  /\ pois' = <<>>
  /\ log' = Append(log, LogEntry(file_max_pois, Len(pois), "failed"))
  /\ UNCHANGED <<configvars, i, all_pois, total_pois, file_max_pois, nread,
                 parservars, late_calls, output, written, ret>>
  /\ UNCHANGED harness

\* apply_file decodes the next node and calls node() with it.
PbfNode(n) ==
  /\ prog = "pbf" /\ pc = "pbf" /\ nread < MaxElems
  /\ LET r == HandlerNode(n, pois, bounds, file_max_pois)
     IN  /\ pois' = r.pois
         /\ late_calls' = late_calls + (IF r.late THEN 1 ELSE 0)
  /\ nread' = nread + 1
  /\ UNCHANGED <<configvars, pc, i, all_pois, total_pois, file_max_pois, parservars,
                 log, output, written, ret>>
  /\ UNCHANGED harness

\* apply_file reaches the end of the file: parse_osm_pbf returns handler.pois.
PbfEof ==
  /\ prog = "pbf" /\ pc = "pbf"
  /\ pc' = "returned"
  /\ log' = Append(log, LogEntry(file_max_pois, Len(pois), "ok"))
  /\ UNCHANGED <<configvars, i, all_pois, total_pois, file_max_pois, pois, nread,
                 parservars, late_calls, output, written, ret>>
  /\ UNCHANGED harness

\* A mutant of PbfError: the records the handler had accepted are kept.
PbfError_mut ==
  /\ prog = "pbf" /\ pc = "pbf"
  /\ pc' = "loop"
  /\ i' = i + 1
  /\ pois' = <<>>
  /\ all_pois' = all_pois \o pois
  /\ log' = Append(log, LogEntry(file_max_pois, Len(pois), "failed"))
  /\ UNCHANGED <<configvars, total_pois, file_max_pois, nread,
                 parservars, late_calls, output, written, ret>>
  /\ UNCHANGED harness

\* apply_file raises (truncated or corrupt file): the exception leaves
\* parse_osm_pbf and main's "except Exception: continue" takes the next file.
PbfError ==
  /\ prog = "pbf" /\ pc = "pbf"
  /\ pc' = "loop"
  /\ i' = i + 1
  /\ pois' = <<>>
  /\ log' = Append(log, LogEntry(file_max_pois, Len(pois), "failed"))
  /\ UNCHANGED <<configvars, all_pois, total_pois, file_max_pois, nread,
                 parservars, late_calls, output, written, ret>>
  /\ UNCHANGED harness

\* A mutant of Extend: the new records are put in front.
Extend_mut(all, ps) == ps \o all

\* all_pois.extend(pois)
Extend(all, ps) == all \o ps

\* A mutant of MainCapReached: > instead of >=.
MainCapReached_mut(cap, n) == cap # 0 /\ n > cap

\* if args.max_pois and len(all_pois) >= args.max_pois (line 427)
MainCapReached(cap, n) == cap # 0 /\ n >= cap

\* Lines 424-429: the records of the file are appended and the loop ends
\* when the cap is reached.
MainExtend ==
  /\ prog = "pbf" /\ pc = "returned"
  /\ all_pois' = Extend(all_pois, pois)
  /\ IF MainCapReached(max_pois, Len(all_pois'))
       THEN pc' = "finish" /\ i' = i
       ELSE pc' = "loop" /\ i' = i + 1
  /\ pois' = <<>>
  /\ UNCHANGED <<configvars, total_pois, file_max_pois, nread, parservars,
                 late_calls, log, output, written, ret>>
  /\ UNCHANGED harness

\* Lines 435-453: return 1 without records, else write_csv and return 0.
MainFinish ==
  /\ prog = "pbf" /\ pc = "finish"
  /\ pc' = "done"
  /\ IF all_pois = <<>>
       THEN ret' = "1" /\ UNCHANGED <<output, written>>
       ELSE ret' = "0" /\ output' = all_pois /\ written' = TRUE
  /\ UNCHANGED <<configvars, i, all_pois, total_pois, file_max_pois, pois, nread,
                 parservars, late_calls, log>>
  /\ UNCHANGED harness

\* ------------------------------ process_geofabrik_data, geofabrik_to_csv.py
\* Lines 218-222: the next file is handed to parse_osm_xml with
\* max_pois - total_pois.
CsvNextFile ==
  /\ prog = "csv" /\ pc = "loop" /\ i <= Len(osm_files)
  /\ pc' = "xml"
  /\ file_max_pois' = max_pois - total_pois
  /\ pois' = <<>>
  /\ current_element' = None /\ current_tags' = EmptyTags
  /\ current_lat' = NoAttr /\ current_lon' = NoAttr
  /\ retained' = 0
  /\ UNCHANGED <<configvars, i, all_pois, total_pois, nread, current_node,
                 late_calls, log, output, written, ret>>
  /\ UNCHANGED harness

\* One pass of the for loop of parse_osm_xml over the next element of an XML
\* file (elem.clear(), line 145, empties the element and leaves it attached
\* to the root); after the break the temporary CSV is written and len(pois) returned,
\* on an exception 0 is returned and nothing is written.
CsvRead(el) ==
  /\ prog = "csv" /\ pc = "xml" /\ osm_files[i] = "osm" /\ nread < MaxElems
  /\ LET r == CsvElement(el, current_element, current_lat, current_lon, current_tags,
                         pois, file_max_pois)
     IN  /\ current_element' = r.current_element
         /\ current_lat' = r.current_lat
         /\ current_lon' = r.current_lon
         /\ current_tags' = r.current_tags
         /\ pois' = (IF r.ctl = "raise" THEN <<>> ELSE r.pois)
         /\ pc' = (IF r.ctl = "next" THEN "xml" ELSE "returned")
         /\ log' = (IF r.ctl = "next" THEN log
                    ELSE Append(log, LogEntry(file_max_pois, Len(r.pois),
                                              IF r.ctl = "raise" THEN "failed" ELSE "ok")))
  /\ nread' = nread + 1
  /\ retained' = retained + 1
  /\ UNCHANGED <<configvars, i, all_pois, total_pois, file_max_pois, current_node,
                 late_calls, output, written, ret>>
  /\ UNCHANGED harness

\* The document ends: the temporary CSV is written when pois is not empty and
\* len(pois) is returned (lines 152-185).
CsvEof ==
  /\ prog = "csv" /\ pc = "xml" /\ osm_files[i] = "osm"
  /\ pc' = "returned"
  /\ retained' = 0
  /\ log' = Append(log, LogEntry(file_max_pois, Len(pois), "ok"))
  /\ UNCHANGED <<configvars, i, all_pois, total_pois, file_max_pois, pois, nread,
                 current_node, current_tags, current_element, current_lat, current_lon,
                 late_calls, output, written, ret>>
  /\ UNCHANGED harness

\* ET.ParseError or another exception (a file that is not XML, such as a
\* .osm.pbf that find_osm_files lists, fails here): return 0 (lines 155-160).
CsvParseError ==
  /\ prog = "csv" /\ pc = "xml"
  /\ pc' = "returned"
  /\ pois' = <<>>
  /\ log' = Append(log, LogEntry(file_max_pois, Len(pois), "failed"))
  /\ UNCHANGED <<configvars, i, all_pois, total_pois, file_max_pois, nread,
                 parservars, late_calls, output, written, ret>>
  /\ UNCHANGED harness

\* Lines 224-235: the rows of the temporary CSV are appended when
\* pois_extracted > 0, and the loop ends when total_pois >= max_pois.
CsvCollect ==
  /\ prog = "csv" /\ pc = "returned"
  /\ IF Len(pois) > 0
       THEN /\ all_pois' = Extend(all_pois, CsvRows(pois))
            /\ total_pois' = total_pois + Len(pois)
            /\ IF total_pois' >= max_pois
                 THEN pc' = "finish" /\ i' = i
                 ELSE pc' = "loop" /\ i' = i + 1
       ELSE /\ pc' = "loop" /\ i' = i + 1
            /\ UNCHANGED <<all_pois, total_pois>>
  /\ pois' = <<>>
  /\ UNCHANGED <<configvars, file_max_pois, nread, parservars, late_calls, log,
                 output, written, ret>>
  /\ UNCHANGED harness

\* Lines 237-249: the final CSV is written when there are records.
CsvFinish ==
  /\ prog = "csv" /\ pc = "finish"
  /\ pc' = "done"
  /\ IF all_pois = <<>>
       THEN ret' = "False" /\ UNCHANGED <<output, written>>
       ELSE ret' = "True" /\ output' = all_pois /\ written' = TRUE
  /\ UNCHANGED <<configvars, i, all_pois, total_pois, file_max_pois, pois, nread,
                 parservars, late_calls, log>>
  /\ UNCHANGED harness

\* ----------------------------------------------------- the aggregate run
RunNext ==
  \/ SourceNotFound
  \/ EnterLoop
  \/ LoopExhausted
  \/ MainNextFile
  \/ \E el \in Elements : XmlRead(el)
  \/ XmlEof
  \/ XmlParseError
  \/ \E n \in PbfNodes : PbfNode(n)
  \/ PbfEof
  \/ PbfError
  \/ MainExtend
  \/ MainFinish
  \/ CsvNextFile
  \/ \E el \in Elements : CsvRead(el)
  \/ CsvEof
  \/ CsvParseError
  \/ CsvCollect
  \/ CsvFinish

Init == RunInit /\ CatIdle /\ MonoIdle /\ ParseIdle /\ WriteIdle

Next == RunNext

Spec == Init /\ [][Next]_vars

\* The run is one sequential program: whenever it has a next step it takes
\* one.  A file has finitely many elements (nread < MaxElems), so its parser
\* reaches the end of the file, its cap or a failure.
SpecLive == Init /\ [][Next]_vars /\ WF_vars(Next)

\* ======================================================== the aggregate run
IsPrefix(a, b) == Len(a) <= Len(b) /\ SubSeq(b, 1, Len(a)) = a

\* The records that the files which ended without a failure accepted.
RECURSIVE SumOk(_)
SumOk(l) ==
  IF l = <<>> THEN 0
  ELSE (IF Head(l).outcome = "ok" THEN Head(l).accepted ELSE 0) + SumOk(Tail(l))

Parsing == pc \in {"xml", "pbf"}

\* C1: with a global cap K >= 1 the records accumulated so far, together with
\* those of the file being parsed, never number more than K, and neither do
\* the rows of the output.
C1_CapNeverExceeded ==
  max_pois >= 1 =>
    /\ Len(all_pois) + Len(pois) <= max_pois
    /\ Len(output) <= max_pois

\* C1 witness: a finished run over two files that offered more entities than
\* the cap and wrote exactly K >= 2 rows.
C1_Witness ==
  /\ pc = "done" /\ written /\ max_pois >= 2 /\ Len(output) = max_pois
  /\ Len(log) >= 2 /\ nread > max_pois

\* C2: a file that fails part-way contributes none of the records it had
\* accepted (the accumulated records are those of the files that did not
\* fail), and with a cap K >= 1 the loop goes on to the file after it.
C2_FailedFileContributesNothing ==
  /\ pc \in {"loop", "finish", "done"} => Len(all_pois) = SumOk(log)
  /\ (max_pois >= 1 /\ pc = "done") =>
       \A j \in 1..Len(log) :
         (log[j].outcome = "failed" /\ j < Len(osm_files)) => Len(log) > j

\* C2 witness: a finished run in which a file failed after its parser had
\* accepted a record and the file after it contributed one.
C2_Witness ==
  /\ pc = "done" /\ max_pois >= 1
  /\ \E j \in 1..Len(log) :
       /\ log[j].outcome = "failed" /\ log[j].accepted > 0
       /\ j < Len(log) /\ log[j + 1].outcome = "ok" /\ log[j + 1].accepted > 0
  /\ Len(all_pois) > 0

\* The caps handed to the files of the run never increase.
RemainingNeverIncreases ==
  /\ \A j \in 1..Len(log) : \A k \in j..Len(log) : log[k].cap <= log[j].cap
  /\ Parsing => \A j \in 1..Len(log) : file_max_pois <= log[j].cap

\* A file is open only with the remaining budget as its cap, and that is
\* positive.
OpenedWithRemaining ==
  Parsing =>
    /\ file_max_pois = max_pois - Len(all_pois)
    /\ prog = "csv" => file_max_pois = max_pois - total_pois
    /\ file_max_pois > 0

\* C4 as claimed, for every cap including K <= 0: a file is opened only when
\* remaining = K - accepted_so_far > 0, gets it as its cap, and remaining
\* never increases.
C4_Original == OpenedWithRemaining /\ RemainingNeverIncreases

\* C4 amended: for every cap K >= 1 a file is opened only when remaining =
\* K - accepted_so_far > 0, gets it as its cap, and remaining never increases.
C4_RemainingBudget == max_pois >= 1 => (OpenedWithRemaining /\ RemainingNeverIncreases)

\* C4 witness: a later file is open with a cap smaller than K.
C4_Witness ==
  /\ max_pois >= 2 /\ Parsing /\ Len(log) >= 1
  /\ file_max_pois < max_pois /\ file_max_pois > 0

\* C5: in the binary backend no entity is delivered to node() once the
\* per-file cap is reached.
C5_DecodeStopsAtCap == late_calls = 0

Returned == IF prog = "csv" THEN CsvRows(pois) ELSE pois

\* C7: the accumulated records change only when a file's records, in the
\* order its parser accepted them, are appended after those of the files
\* before it; a parser's own list only grows at its end (or is dropped on a
\* failure); and the written output is the accumulated sequence.
C7_OrderPreserved ==
  /\ [][/\ all_pois' # all_pois =>
             (pc = "returned" /\ all_pois' = all_pois \o Returned)
        /\ (Parsing /\ pois' # pois) =>
             (pois' = <<>> \/ (Len(pois') = Len(pois) + 1 /\ IsPrefix(pois, pois')))
       ]_vars
  /\ [](written => output = all_pois)

\* C7 witness: the output holds two different records that came from two
\* files.
C7_Witness ==
  /\ pc = "done" /\ written /\ Len(output) >= 2 /\ output[1] # output[2]
  /\ Len(log) >= 2 /\ log[1].accepted = 1 /\ log[1].outcome = "ok"
  /\ log[2].accepted >= 1 /\ log[2].outcome = "ok"

\* C23: when the input path does not exist the run ends with 1 (main) or
\* False (process_geofabrik_data), no file is parsed, no record is
\* accumulated and no output is written.
C23_SourceNotFound ==
  ~input_exists =>
    /\ pc \in {"start", "done"}
    /\ pc = "done" => ret = (IF prog = "pbf" THEN "1" ELSE "False")
    /\ log = <<>> /\ nread = 0 /\ pois = <<>> /\ all_pois = <<>>
    /\ ~written /\ output = <<>>

\* C23 witness: process_geofabrik_data returned False for a missing path.
C23_Witness == ~input_exists /\ prog = "csv" /\ pc = "done" /\ ret = "False"

\* At the end of a run every file has been taken by the loop (processed to
\* its end, stopped at its cap or abandoned on a failure), or was never
\* opened because the budget was used up.
FilesAccounted ==
  \A j \in 1..Len(osm_files) : j <= Len(log) \/ Len(all_pois) >= max_pois

RunTerminates == (pc = "start") ~> (pc = "done" /\ ret # "")

\* In a finished run in which no .pbf file lacked its decoder, every file is
\* accounted for.
AccountedWithDecoder ==
  (pc = "done" /\ max_pois >= 1 /\ \A j \in 1..Len(log) : log[j].outcome # "unavailable")
    => FilesAccounted

\* A file the loop has left gave no record: its parser accepted none, or it
\* failed.
GaveNothing(entry) ==
  entry.outcome = "failed" \/ (entry.outcome = "ok" /\ entry.accepted = 0)

\* The file after one that gave nothing gets the cap that file was given.
SameCapAfterNothing ==
  /\ \A j \in 1..(Len(log) - 1) : GaveNothing(log[j]) => log[j + 1].cap = log[j].cap
  /\ (Parsing /\ log # <<>> /\ GaveNothing(log[Len(log)]))
       => file_max_pois = log[Len(log)].cap

\* The step in which the loop takes in a file that gave nothing leaves the
\* accumulated records and the budget as they were and, with a cap K >= 1,
\* goes on to the next file.
NothingChangesNothing ==
  ((pc = "returned" /\ pois = <<>>) \/ (pc = "pbf" /\ pc' = "loop"))
    => /\ all_pois' = all_pois /\ total_pois' = total_pois
       /\ max_pois >= 1 => (pc' = "loop" /\ i' = i + 1)

C27_StopsAtCap ==
  file_max_pois >= 1 =>
    /\ pc = "xml" => Len(pois) < file_max_pois
    /\ late_calls = 0
    /\ pc = "returned" => Len(pois) <= file_max_pois

\* The text extractors of both scripts leave their loop with the record
\* that reaches the cap.
TextParseStopsAtCap ==
  file_max_pois >= 1 =>
    /\ pc = "xml" => Len(pois) < file_max_pois
    /\ pc = "returned" => Len(pois) <= file_max_pois

\* C25: while a text parse runs, the parsed elements still attached to the
\* root are at most the element in flight, however many elements the
\* document has.
C25_RetainedBounded == pc = "xml" => retained <= 1

\* Every element read from the first file is still attached to the root
\* while the parse runs.
RetainedGrowsWithDocument == (pc = "xml" /\ i = 1) => retained = nread

\* ================================================= the pure functions alone
\* The tag sets handed to the categorizers and the description builders: at
\* most MaxTags tags, every value a rule names, one value no rule names, and
\* the empty value where a rule tests for presence.
TagKeys == {"amenity", "shop", "tourism", "healthcare", "railway", "aeroway", "highway",
            "leisure", "historic", "name", "cuisine", "addr:street", "addr:city",
            "description"}

TagValues(k) ==
  CASE k = "amenity" ->
         RestaurantAmenities \cup HotelAmenities \cup HospitalAmenities
         \cup TransportAmenities \cup GasAmenities \cup ShoppingAmenities
         \cup RecreationAmenities \cup EducationAmenities \cup TourismAmenities
         \cup ServicesAmenities \cup {"parking", "mall", "casino", "nightclub", ""}
    [] k = "tourism" ->
         HotelTourism \cup RecreationTourism \cup TourismTourism \cup {"camp_site", ""}
    [] k = "shop" -> {"supermarket", ""}
    [] k = "healthcare" -> {"clinic", ""}
    [] k = "railway" -> TransportRailway \cup {"rail"}
    [] k = "aeroway" -> TransportAeroway \cup {"runway"}
    [] k = "highway" -> {"bus_stop", "residential"}
    [] k = "leisure" -> RecreationLeisure \cup {"garden"}
    [] k = "historic" -> {"castle", ""}
    [] k = "name" -> NameValues
    [] k = "cuisine" -> {"italian"}
    [] k = "addr:street" -> {"Main Street"}
    [] k = "addr:city" -> {"Test City"}
    [] k = "description" -> {"A place"}

CatInit ==
  /\ tags = EmptyTags /\ cstep = 0 /\ category = "" /\ description = <<>>
  /\ hcategory = "" /\ hdescription = <<>> /\ ccategory = ""

others == <<runvars, monovars, parsevars, writevars>>

\* One more tag is read into the tag set of the entity.
AddTag(k, v) ==
  /\ cstep = 0 /\ k \notin DOMAIN tags /\ Cardinality(DOMAIN tags) < MaxTags
  /\ tags' = SetItem(tags, k, v)
  /\ UNCHANGED <<cstep, category, description, hcategory, hdescription, ccategory, others>>

\* category = categorize_poi_xml(current_tags)
CallCategorizeXml ==
  /\ cstep = 0
  /\ category' = categorize_poi_xml(tags)
  /\ cstep' = 1
  /\ UNCHANGED <<tags, description, hcategory, hdescription, ccategory, others>>

\* description = get_description_xml(current_tags)
CallDescriptionXml ==
  /\ cstep = 1
  /\ description' = get_description_xml(tags)
  /\ cstep' = 2
  /\ UNCHANGED <<tags, category, hcategory, hdescription, ccategory, others>>

\* category = self.categorize_poi(tags)
CallHandlerCategorize ==
  /\ cstep = 2
  /\ hcategory' = POIHandler_categorize_poi(tags)
  /\ cstep' = 3
  /\ UNCHANGED <<tags, category, description, hdescription, ccategory, others>>

\* description = self.get_description(tags)
CallHandlerDescription ==
  /\ cstep = 3
  /\ hdescription' = POIHandler_get_description(tags)
  /\ cstep' = 4
  /\ UNCHANGED <<tags, category, description, hcategory, ccategory, others>>

\* category = categorize_poi(current_tags)  (geofabrik_to_csv.py)
CallCategorizeCsv ==
  /\ cstep = 4
  /\ ccategory' = categorize_poi(tags)
  /\ cstep' = 5
  /\ UNCHANGED <<tags, category, description, hcategory, hdescription, others>>

CatNext ==
  \/ \E k \in TagKeys : \E v \in TagValues(k) : AddTag(k, v)
  \/ CallCategorizeXml
  \/ CallDescriptionXml
  \/ CallHandlerCategorize
  \/ CallHandlerDescription
  \/ CallCategorizeCsv

InitCat == CatInit /\ RunIdle /\ MonoIdle /\ ParseIdle /\ WriteIdle

SpecCat == InitCat /\ [][CatNext]_vars

\* The rule table as the specification lists it: rule n matches tags.
ListedRuleMatches(n, t) ==
  LET amenity == Get(t, "amenity", "")
      tourism == Get(t, "tourism", "")
  IN  CASE n = 1 -> amenity \in {"restaurant", "cafe", "fast_food", "bar", "pub",
                                 "food_court", "biergarten"}
        [] n = 2 -> \/ amenity \in {"hotel", "guest_house", "hostel", "motel"}
                    \/ tourism \in {"hotel", "hostel", "guest_house", "motel"}
        [] n = 3 -> \/ amenity \in {"hospital", "clinic", "pharmacy", "dentist", "doctors",
                                    "veterinary"}
                    \/ Get(t, "healthcare", "") # ""
        [] n = 4 -> \/ amenity \in {"bus_station", "taxi", "fuel", "ferry_terminal"}
                    \/ Get(t, "railway", "") \in {"station", "halt", "tram_stop"}
                    \/ Get(t, "aeroway", "") \in {"aerodrome", "helipad"}
                    \/ Get(t, "highway", "") = "bus_stop"
        [] n = 5 -> amenity \in {"fuel", "charging_station"}
        [] n = 6 -> "shop" \in DOMAIN t \/ amenity \in {"marketplace", "shopping_centre"}
        [] n = 7 -> \/ Get(t, "leisure", "") \in {"park", "playground", "sports_centre",
                                                  "stadium", "swimming_pool", "golf_course"}
                    \/ amenity \in {"theatre", "cinema", "arts_centre"}
                    \/ tourism \in {"zoo", "theme_park"}
        [] n = 8 -> amenity \in {"school", "university", "college", "kindergarten", "library"}
        [] n = 9 -> \/ tourism \in {"attraction", "museum", "monument", "viewpoint",
                                    "gallery", "information"}
                    \/ amenity = "place_of_worship"
                    \/ "historic" \in DOMAIN t
        [] n = 10 -> amenity \in {"bank", "atm", "post_office", "police", "fire_station",
                                  "courthouse", "townhall"}

\* The rule table with the three conditions the code states differently:
\* shop and historic count only with a non-empty value, and the shopping rule
\* also takes tourism = attraction with a name that contains 'market'.
AmendedRuleMatches(n, t) ==
  CASE n = 6 -> \/ Get(t, "shop", "") # ""
                \/ Get(t, "amenity", "") \in {"marketplace", "shopping_centre"}
                \/ (Get(t, "tourism", "") = "attraction"
                    /\ ContainsMarket(Get(t, "name", "")))
    [] n = 9 -> \/ Get(t, "tourism", "") \in {"attraction", "museum", "monument",
                                               "viewpoint", "gallery", "information"}
                \/ Get(t, "amenity", "") = "place_of_worship"
                \/ Get(t, "historic", "") # ""
    [] OTHER -> ListedRuleMatches(n, t)

RuleCategory == <<"restaurant", "hotel", "hospital", "transportation", "gas_station",
                  "shopping", "recreation", "education", "tourism", "services">>

\* The category of the first rule that matches, none without a match.
FirstListed(t) ==
  LET m == {n \in 1..10 : ListedRuleMatches(n, t)}
  IN  IF m = {} THEN None ELSE RuleCategory[CHOOSE n \in m : \A o \in m : n <= o]

FirstAmended(t) ==
  LET m == {n \in 1..10 : AmendedRuleMatches(n, t)}
  IN  IF m = {} THEN None ELSE RuleCategory[CHOOSE n \in m : \A o \in m : n <= o]

Restrict(t, keys) == [k \in DOMAIN t \cap keys |-> t[k]]

RuleKeys == {"amenity", "shop", "tourism", "healthcare", "railway", "aeroway", "highway",
             "leisure", "historic"}

\* C8 as claimed: the result is the first match of the listed rule table, and
\* tags outside the rule predicates, such as name, do not affect it.
C8_Original ==
  cstep >= 1 =>
    /\ category = FirstListed(tags)
    /\ category = categorize_poi_xml(Restrict(tags, RuleKeys))

\* C8 amended: the result is the first match of the rule table in which shop
\* and historic count only with a non-empty value and the shopping rule also
\* takes tourism = attraction with a name that contains 'market'; tags other
\* than the rule keys and name do not affect it.
C8_FirstMatchWins ==
  cstep >= 1 =>
    /\ category = FirstAmended(tags)
    /\ category = categorize_poi_xml(Restrict(tags, RuleKeys \cup {"name"}))

\* C8 witness: an attraction whose name contains 'market' was categorized as
\* shopping.
C8_Witness ==
  /\ cstep >= 1 /\ Get(tags, "tourism", "") = "attraction"
  /\ Get(tags, "name", "") = "Super Market" /\ category = "shopping"

\* C9: amenity = fuel is a gas station unless the restaurant, hotel or
\* hospital rule matches.
C9_FuelIsGasStation ==
  (/\ cstep >= 1 /\ Get(tags, "amenity", "") = "fuel"
   /\ \A n \in 1..3 : ~ListedRuleMatches(n, tags))
    => category = "gas_station"

\* C10: POIHandler.categorize_poi and POIHandler.get_description give what
\* categorize_poi_xml and get_description_xml give for the same tag set.
C10_BackendsAgree ==
  /\ cstep >= 3 => hcategory = category
  /\ cstep >= 4 => hdescription = description

\* C10 witness: both backends were applied to a tag set of two tags that is a
\* POI and has a description other than the sentinel.
C10_Witness ==
  /\ cstep = 4 /\ Cardinality(DOMAIN tags) >= 2
  /\ category # None /\ description # Sentinel

\* C11: on a tag set that matches a rule of either table, categorize_poi of
\* geofabrik_to_csv.py returns the category that categorize_poi_xml returns.
C11_ModesShareRuleTable ==
  (cstep >= 1 /\ (category # None \/ categorize_poi(tags) # "other"))
    => categorize_poi(tags) = category

\* The seven description fields in their order, each with its label.
DescFields ==
  << <<"amenity", "Amenity: ">>, <<"shop", "Shop: ">>, <<"tourism", "Tourism: ">>,
     <<"addr:street", "Street: ">>, <<"addr:city", "City: ">>,
     <<"cuisine", "Cuisine: ">>, <<"description", "Description: ">> >>

DescKeys == {DescFields[n][1] : n \in 1..Len(DescFields)}

\* The fields of t that are present, in the order of fields, joined by '; ';
\* a field in bare is rendered as its value alone, any other as label and
\* value.
RECURSIVE Rendered(_, _, _)
Rendered(t, fields, bare) ==
  IF fields = <<>> THEN <<>>
  ELSE LET k == Head(fields)[1]
           rest == Rendered(t, Tail(fields), bare)
           piece == IF k \in bare THEN <<t[k]>> ELSE <<Head(fields)[2], t[k]>>
       IN  IF k \notin DOMAIN t THEN rest
           ELSE IF rest = <<>> THEN piece
           ELSE piece \o <<"; ">> \o rest

\* C18 as claimed: every present field, the description tag included, is
\* rendered as label and value.
C18_Original ==
  (cstep >= 2 /\ DOMAIN tags \cap DescKeys # {})
    => description = Rendered(tags, DescFields, {})

\* C18 amended: the present fields in the fixed order joined by '; ', the
\* first six as 'Label: value' and the description tag as its value alone.
C18_FixedFieldOrder ==
  (cstep >= 2 /\ DOMAIN tags \cap DescKeys # {})
    => description = Rendered(tags, DescFields, {"description"})

\* C18 witness: a description was built from two fields, one of them the
\* description tag.
C18_Witness ==
  /\ cstep >= 2 /\ DOMAIN tags = {"description", "cuisine"}
  /\ description = <<"Cuisine: ", "italian", "; ", "A place">>

\* C19: without any of the seven description fields the description is
\* exactly 'OSM Point of Interest', whatever other tags are present.
C19_SentinelWithoutFields ==
  (cstep >= 2 /\ DOMAIN tags \cap DescKeys = {})
    => description = <<"OSM Point of Interest">>

\* C19 witness: a tag set of two tags, none of them a description field, got
\* the sentinel.
C19_Witness ==
  /\ cstep >= 2 /\ DOMAIN tags = {"name", "highway"}
  /\ description = <<"OSM Point of Interest">>

\* Some rule of categorize_poi of geofabrik_to_csv.py matches the tag set.
CsvRuleMatches(t) ==
  \/ Get(t, "amenity", "") \in
       {"restaurant", "cafe", "fast_food", "bar", "pub", "food_court", "hotel",
        "guest_house", "hostel", "motel", "hospital", "clinic", "pharmacy", "dentist",
        "doctors", "bus_station", "taxi", "fuel", "parking", "ferry_terminal", "school",
        "university", "college", "library", "marketplace", "mall", "bank", "atm",
        "police", "fire_station", "cinema", "theatre", "casino", "nightclub"}
  \/ Get(t, "tourism", "") \in
       {"hotel", "hostel", "guest_house", "attraction", "museum", "gallery", "zoo",
        "theme_park"}
  \/ Get(t, "shop", "") # ""
  \/ Get(t, "healthcare", "") # ""

\* The categories the tests pin down for a single rule-defining tag.
Pinned(k, v) ==
  CASE k = "amenity" /\ v \in {"restaurant", "cafe"} -> "restaurant"
    [] k \in {"amenity", "tourism"} /\ v = "hotel" -> "hotel"
    [] k = "amenity" /\ v \in {"hospital", "pharmacy"} -> "hospital"
    [] k = "shop" /\ v # "" -> "shopping"
    [] k = "amenity" /\ v \in {"fuel", "bus_station"} -> "transportation"
    [] k = "amenity" /\ v = "school" -> "education"
    [] k = "amenity" /\ v = "bank" -> "bank"
    [] k = "tourism" /\ v = "attraction" -> "tourism"
    [] OTHER -> ""

Doc(kind, elems, broken) == [kind |-> kind, elems |-> elems, broken |-> broken]

SeqsUpTo(S, n) == UNION {[1..m -> S] : m \in 0..n}

Docs ==
  {Doc("osm", e, b) : e \in SeqsUpTo(Elements, MaxDocElems), b \in BOOLEAN}
  \cup {Doc("pbf", e, b) : e \in SeqsUpTo(PbfNodes, MaxDocElems), b \in BOOLEAN}

\* The for loop of parse_osm_xml (geofabrik_to_csv_pbf.py) over a document.
RECURSIVE XmlLoop(_, _, _, _, _, _, _)
XmlLoop(elems, broken, cn, ct, ps, bnds, cap) ==
  IF elems = <<>> THEN (IF broken THEN <<>> ELSE ps)
  ELSE LET r == XmlElement(Head(elems), cn, ct, ps, bnds, cap)
       IN  IF r.ctl = "raise" THEN <<>>
           ELSE IF r.ctl = "break" THEN r.pois
           ELSE XmlLoop(Tail(elems), broken, r.current_node, r.current_tags, r.pois,
                        bnds, cap)

parse_osm_xml(doc, bnds, cap) ==
  XmlLoop(doc.elems, doc.broken, <<>>, EmptyTags, <<>>, bnds, cap)

\* handler.apply_file: node() is called for every node of the file.
RECURSIVE ApplyFile(_, _, _, _)
ApplyFile(nodes, ps, bnds, cap) ==
  IF nodes = <<>> THEN ps
  ELSE ApplyFile(Tail(nodes), HandlerNode(Head(nodes), ps, bnds, cap).pois, bnds, cap)

\* parse_osm_pbf: the records, or an exception of apply_file.
parse_osm_pbf(doc, bnds, cap) ==
  [raised |-> doc.broken, pois |-> ApplyFile(doc.elems, <<>>, bnds, cap)]

\* The number of rows main writes: none when it returns 1.
RECURSIVE MainLoop(_, _, _, _, _, _)
MainLoop(ds, idx, all, cap, bnds, osmium) ==
  IF idx > Len(ds) THEN Len(all)
  ELSE IF ds[idx].kind = "pbf" /\ ~osmium THEN 0
  ELSE IF ds[idx].kind = "pbf" /\ parse_osm_pbf(ds[idx], bnds, cap - Len(all)).raised
    THEN MainLoop(ds, idx + 1, all, cap, bnds, osmium)
  ELSE LET ps == IF ds[idx].kind = "pbf"
                 THEN parse_osm_pbf(ds[idx], bnds, cap - Len(all)).pois
                 ELSE parse_osm_xml(ds[idx], bnds, cap - Len(all))
           new == Extend(all, ps)
       IN  IF MainCapReached(cap, Len(new)) THEN Len(new)
           ELSE MainLoop(ds, idx + 1, new, cap, bnds, osmium)

\* The for loop of parse_osm_xml (geofabrik_to_csv.py) over a document; a
\* file that is not XML fails at once.
RECURSIVE CsvLoop(_, _, _, _, _, _, _, _)
CsvLoop(elems, broken, ce, la, lo, ct, ps, cap) ==
  IF elems = <<>> THEN (IF broken THEN <<>> ELSE ps)
  ELSE LET r == CsvElement(Head(elems), ce, la, lo, ct, ps, cap)
       IN  IF r.ctl = "raise" THEN <<>>
           ELSE IF r.ctl = "break" THEN r.pois
           ELSE CsvLoop(Tail(elems), broken, r.current_element, r.current_lat,
                        r.current_lon, r.current_tags, r.pois, cap)

CsvParse(doc, cap) ==
  IF doc.kind = "pbf" THEN <<>>
  ELSE CsvLoop(doc.elems, doc.broken, None, NoAttr, NoAttr, EmptyTags, <<>>, cap)

\* The number of rows process_geofabrik_data writes.
RECURSIVE ProcessLoop(_, _, _, _, _)
ProcessLoop(ds, idx, all, total, cap) ==
  IF idx > Len(ds) THEN Len(all)
  ELSE LET ps == CsvParse(ds[idx], cap - total)
       IN  IF Len(ps) > 0
           THEN (IF total + Len(ps) >= cap THEN Len(Extend(all, CsvRows(ps)))
                 ELSE ProcessLoop(ds, idx + 1, Extend(all, CsvRows(ps)), total + Len(ps), cap))
           ELSE ProcessLoop(ds, idx + 1, all, total, cap)

MonoInit ==
  /\ docs \in SeqsUpTo(Docs, MaxFiles)
  /\ caps \in {c \in (1..MaxCap) \X (1..MaxCap) : c[1] <= c[2]}
  /\ counts = <<>> /\ mrun = <<>>

\* main is run on the same files with the smaller and with the larger cap.
RunMainTwice(bnds, osmium) ==
  /\ counts = <<>> /\ docs # <<>>
  /\ counts' = <<MainLoop(docs, 1, <<>>, caps[1], bnds, osmium),
                 MainLoop(docs, 1, <<>>, caps[2], bnds, osmium)>>
  /\ mrun' = [prog |-> "pbf", bounds |-> bnds, OSMIUM_AVAILABLE |-> osmium]
  /\ UNCHANGED <<docs, caps, runvars, catvars, parsevars, writevars>>

\* process_geofabrik_data is run on the same files with both caps.
RunProcessTwice ==
  /\ counts = <<>> /\ docs # <<>>
  /\ counts' = <<ProcessLoop(docs, 1, <<>>, 0, caps[1]),
                 ProcessLoop(docs, 1, <<>>, 0, caps[2])>>
  /\ mrun' = [prog |-> "csv", bounds |-> <<>>, OSMIUM_AVAILABLE |-> TRUE]
  /\ UNCHANGED <<docs, caps, runvars, catvars, parsevars, writevars>>

MonoNext ==
  \/ \E bnds \in BoundsValues : \E osmium \in BOOLEAN : RunMainTwice(bnds, osmium)
  \/ RunProcessTwice

InitMono == MonoInit /\ RunIdle /\ CatIdle /\ ParseIdle /\ WriteIdle

SpecMono == InitMono /\ [][MonoNext]_vars

\* C3: on the same files, a larger cap never yields fewer records.
C3_MonotonicInCap == counts # <<>> => counts[1] <= counts[2]

\* ============================================ one extractor, one document
\* The elements the document of one extractor call is drawn from.
NoLatKiosk == Elem("node", NoAttr, Num(20), Tags1("shop", "supermarket"))
NamedWay == Elem("way", NoAttr, NoAttr, Tags1("name", "Cafe X"))
FarBank == Elem("node", Num(95), Num(20), Tags1("amenity", "bank"))
EdgeTaxi == Elem("node", Num(40), Num(0), Tags1("amenity", "taxi"))
BlankName == Elem("node", Num(10), Num(30), Tags2("shop", "supermarket", "name", " "))
EmptyName == Elem("node", Num(20), Num(10), Tags2("amenity", "cafe", "name", ""))
NamedBench == Elem("node", Num(20), Num(20), Tags2("amenity", "bench", "name", "Cafe X"))
NamedOnly == Elem("node", Num(30), Num(10), Tags1("name", "Cafe X"))
NamedBank == Elem("node", Num(20), Num(30), Tags2("amenity", "bank", "name", "Cafe X"))

ParseElements ==
  {NamedCafe, Museum, BareNode, NoLatKiosk, NamedWay, FarBank, EdgeTaxi, BlankName,
   EmptyName, NamedBench, NamedOnly, NamedBank}

\* The binary decoder hands node() only nodes, each with a location.
ParseNodes == {e \in ParseElements : e.tag = "node" /\ e.lat.kind = "num" /\ e.lon.kind = "num"}

RECURSIVE XmlCategorized(_, _, _, _, _, _)
\* The coordinates of current_node at every call of categorize_poi_xml
\* (line 320) in the for loop of parse_osm_xml over a document.
XmlCategorized(elems, cn, ct, ps, bnds, cap) ==
  IF elems = <<>> THEN <<>>
  ELSE LET el == Head(elems)
           r == XmlElement(el, cn, ct, ps, bnds, cap)
           at == IF el.tag = "node" /\ el.lat.kind # "missing" /\ el.lon.kind # "missing"
                 THEN [lat |-> el.lat.val, lon |-> el.lon.val] ELSE cn[1]
           here == IF r.categorized THEN <<at>> ELSE <<>>
       IN  IF r.ctl = "next"
             THEN here \o XmlCategorized(Tail(elems), r.current_node, r.current_tags,
                                         r.pois, bnds, cap)
           ELSE here

RECURSIVE HandlerCategorized(_, _, _, _)
\* The locations of the nodes for which node() calls categorize_poi
\* (line 51) while apply_file runs over a file.
HandlerCategorized(nodes, ps, bnds, cap) ==
  IF nodes = <<>> THEN <<>>
  ELSE LET n == Head(nodes)
           r == HandlerNode(n, ps, bnds, cap)
       IN  (IF r.categorized THEN << [lat |-> n.lat.val, lon |-> n.lon.val] >> ELSE <<>>)
             \o HandlerCategorized(Tail(nodes), r.pois, bnds, cap)

ParseInit ==
  /\ pdoc \in SeqsUpTo(ParseElements, MaxParseElems)
  /\ pbounds \in BoundsValues
  /\ pcap \in 0..MaxCap
  /\ extractor = "" /\ records = <<>> /\ categorized = <<>>

\* pois = parse_osm_xml(file_path, bounds, max_pois) of geofabrik_to_csv_pbf.py
CallParseOsmXml ==
  /\ extractor = ""
  /\ extractor' = "xml"
  /\ records' = parse_osm_xml(Doc("osm", pdoc, FALSE), pbounds, pcap)
  /\ categorized' = XmlCategorized(pdoc, <<>>, EmptyTags, <<>>, pbounds, pcap)
  /\ UNCHANGED <<pdoc, pbounds, pcap, runvars, catvars, monovars, writevars>>

\* pois = parse_osm_pbf(file_path, bounds, max_pois)
CallParseOsmPbf ==
  /\ extractor = ""
  /\ \A j \in 1..Len(pdoc) : pdoc[j] \in ParseNodes
  /\ extractor' = "pbf"
  /\ records' = parse_osm_pbf(Doc("pbf", pdoc, FALSE), pbounds, pcap).pois
  /\ categorized' = HandlerCategorized(pdoc, <<>>, pbounds, pcap)
  /\ UNCHANGED <<pdoc, pbounds, pcap, runvars, catvars, monovars, writevars>>

\* parse_osm_xml(osm_file, temp_csv, max_pois) of geofabrik_to_csv.py, which
\* takes no bounds
CallCsvParse ==
  /\ extractor = "" /\ pbounds = <<>>
  /\ extractor' = "csv"
  /\ records' = CsvParse(Doc("osm", pdoc, FALSE), pcap)
  /\ UNCHANGED <<categorized, pdoc, pbounds, pcap, runvars, catvars, monovars, writevars>>

ParseNext ==
  \/ CallParseOsmXml
  \/ CallParseOsmPbf
  \/ CallCsvParse

InitParse == ParseInit /\ RunIdle /\ CatIdle /\ MonoIdle /\ WriteIdle

SpecParse == InitParse /\ [][ParseNext]_vars

\* ================================================ the output file, re-read
\* Text is a sequence of characters; a piece without special characters
\* ("name", "restaurant") stands for its letters.
COMMA == ","
QUOTE == "\""
CR == "\r"
LF == "\n"
EAcute == "e-acute"

fieldnames == <<"name", "category", "latitude", "longitude", "description">>

DigitChars == <<"0", "1", "2", "3", "4", "5", "6", "7", "8", "9">>

RECURSIVE DigitsOf(_)
\* The decimal digits of a natural number.
DigitsOf(n) ==
  IF n < 10 THEN <<DigitChars[n + 1]>>
  ELSE DigitsOf(n \div 10) \o <<DigitChars[(n % 10) + 1]>>

RECURSIVE FixedDigits(_, _)
\* The last `width` decimal digits of n, leading zeros included.
FixedDigits(n, width) ==
  IF width = 1 THEN <<DigitChars[(n % 10) + 1]>>
  ELSE FixedDigits(n \div 10, width - 1) \o <<DigitChars[(n % 10) + 1]>>

RECURSIVE Fraction(_, _)
\* The digits of f as a fraction of `width` digits, without trailing
\* zeros but never empty.
Fraction(f, width) ==
  IF width > 1 /\ f % 10 = 0 THEN Fraction(f \div 10, width - 1)
  ELSE FixedDigits(f, width)

\* str(float), which the writer applies to a field that is not a string:
\* the shortest decimal that reads back as the same float.  A coordinate
\* is held as its number of ten-thousandths.
FloatStr(v) ==
  LET a == IF v < 0 THEN -v ELSE v
  IN (IF v < 0 THEN <<"-">> ELSE <<>>) \o DigitsOf(a \div 10000) \o <<".">>
       \o Fraction(a % 10000, 4)

DigitValue(c) == CHOOSE d \in 0..9 : DigitChars[d + 1] = c

RECURSIVE DigitsValue(_)
DigitsValue(ds) ==
  IF ds = <<>> THEN 0
  ELSE 10 * DigitsValue(SubSeq(ds, 1, Len(ds) - 1)) + DigitValue(ds[Len(ds)])

RECURSIVE Padded(_, _)
Padded(ds, width) == IF Len(ds) >= width THEN ds ELSE Padded(ds \o <<"0">>, width)

\* float(text) in ten-thousandths, for the texts FloatStr produces.
ParseFloat(t) ==
  LET neg == t # <<>> /\ t[1] = "-"
      u == IF neg THEN Tail(t) ELSE t
      dot == CHOOSE j \in 1..Len(u) : u[j] = "."
      whole == DigitsValue(SubSeq(u, 1, dot - 1))
      frac == DigitsValue(Padded(SubSeq(u, dot + 1, Len(u)), 4))
      a == whole * 10000 + frac
  IN IF neg THEN -a ELSE a

RECURSIVE Doubled(_)
\* The field with every quote character doubled.
Doubled(f) ==
  IF f = <<>> THEN <<>>
  ELSE (IF Head(f) = QUOTE THEN <<QUOTE, QUOTE>> ELSE <<Head(f)>>) \o Doubled(Tail(f))

\* csv.writer in the default dialect quotes a field that holds the
\* delimiter, the quote character or a character of the line terminator.
NeedsQuote(f) == \E j \in 1..Len(f) : f[j] \in {COMMA, QUOTE, CR, LF}

WriteField(f) == IF NeedsQuote(f) THEN <<QUOTE>> \o Doubled(f) \o <<QUOTE>> ELSE f

RECURSIVE JoinFields(_)
JoinFields(fs) ==
  IF Len(fs) = 1 THEN WriteField(fs[1])
  ELSE WriteField(fs[1]) \o <<COMMA>> \o JoinFields(Tail(fs))

\* writer.writerow: the fields joined by commas, ended by "\r\n".
WriteRow(fs) == JoinFields(fs) \o <<CR, LF>>

\* DictWriter takes the fields of a record in the order of fieldnames.
RowOf(poi) ==
  <<poi.name, <<poi.category>>, FloatStr(poi.latitude), FloatStr(poi.longitude),
    poi.description>>

RECURSIVE WriteRows(_)
WriteRows(ps) == IF ps = <<>> THEN <<>> ELSE WriteRow(RowOf(Head(ps))) \o WriteRows(Tail(ps))

RECURSIVE Utf8Encode(_)
\* encoding='utf-8': a character outside ASCII becomes two bytes.
Utf8Encode(t) ==
  IF t = <<>> THEN <<>>
  ELSE (IF Head(t) = EAcute THEN <<"C3", "A9">> ELSE <<Head(t)>>) \o Utf8Encode(Tail(t))

RECURSIVE Utf8Decode(_)
Utf8Decode(b) ==
  IF b = <<>> THEN <<>>
  ELSE IF Len(b) >= 2 /\ b[1] = "C3" /\ b[2] = "A9"
       THEN <<EAcute>> \o Utf8Decode(SubSeq(b, 3, Len(b)))
  ELSE <<Head(b)>> \o Utf8Decode(Tail(b))

\* write_csv(pois, output_file): newline='' hands the writer's line ends to
\* the file as they are; writeheader, then writerows.
write_csv(ps) ==
  Utf8Encode(WriteRow([j \in 1..Len(fieldnames) |-> <<fieldnames[j]>>]) \o WriteRows(ps))

RECURSIVE UniversalNewlines(_)
\* A file opened for reading without newline='' hands "\r\n" and a lone
\* "\r" to its reader as "\n".
UniversalNewlines(t) ==
  IF t = <<>> THEN <<>>
  ELSE IF Head(t) = CR
       THEN <<LF>> \o UniversalNewlines(IF Len(t) >= 2 /\ t[2] = LF
                                         THEN SubSeq(t, 3, Len(t)) ELSE Tail(t))
  ELSE <<Head(t)>> \o UniversalNewlines(Tail(t))

RECURSIVE ReaderRows(_, _, _, _, _)
\* csv.reader in the default dialect, character by character: st is the
\* reader's state, fld the field and row the fields collected so far.  A
\* row without fields (an empty line) is dropped, as DictReader drops it.
ReaderRows(t, st, fld, row, rows) ==
  LET done == IF row = <<>> THEN rows ELSE Append(rows, row)
  IN
  IF t = <<>>
    THEN IF st \in {"start_record", "eat_crnl"} THEN done
         ELSE Append(rows, Append(row, fld))
  ELSE
    LET c == Head(t)
        rest == Tail(t)
    IN
    CASE st = "start_record" ->
           IF c \in {CR, LF} THEN ReaderRows(rest, "eat_crnl", <<>>, <<>>, rows)
           ELSE ReaderRows(t, "start_field", <<>>, <<>>, rows)
      [] st = "start_field" ->
           IF c \in {CR, LF} THEN ReaderRows(rest, "eat_crnl", <<>>, Append(row, <<>>), rows)
           ELSE IF c = QUOTE THEN ReaderRows(rest, "in_quoted_field", <<>>, row, rows)
           ELSE IF c = COMMA THEN ReaderRows(rest, "start_field", <<>>, Append(row, <<>>), rows)
           ELSE ReaderRows(rest, "in_field", <<c>>, row, rows)
      [] st = "in_field" ->
           IF c \in {CR, LF} THEN ReaderRows(rest, "eat_crnl", <<>>, Append(row, fld), rows)
           ELSE IF c = COMMA THEN ReaderRows(rest, "start_field", <<>>, Append(row, fld), rows)
           ELSE ReaderRows(rest, "in_field", Append(fld, c), row, rows)
      [] st = "in_quoted_field" ->
           IF c = QUOTE THEN ReaderRows(rest, "quote_in_quoted_field", fld, row, rows)
           ELSE ReaderRows(rest, "in_quoted_field", Append(fld, c), row, rows)
      [] st = "quote_in_quoted_field" ->
           IF c = QUOTE THEN ReaderRows(rest, "in_quoted_field", Append(fld, QUOTE), row, rows)
           ELSE IF c = COMMA THEN ReaderRows(rest, "start_field", <<>>, Append(row, fld), rows)
           ELSE IF c \in {CR, LF}
                THEN ReaderRows(rest, "eat_crnl", <<>>, Append(row, fld), rows)
           ELSE ReaderRows(rest, "in_field", Append(fld, c), row, rows)
      [] OTHER ->
           IF c \in {CR, LF} THEN ReaderRows(rest, "eat_crnl", <<>>, row, rows)
           ELSE ReaderRows(t, "start_record", <<>>, <<>>, done)

\* csv.DictReader: the first row names the fields, every later row is a
\* dictionary from these names; what a longer row holds beyond them goes
\* under the key None.
DictReader(t) ==
  LET all == ReaderRows(t, "start_record", <<>>, <<>>, <<>>)
      names == IF all = <<>> THEN <<>> ELSE all[1]
      Dict(row) == [fields |-> [j \in 1..Len(names) |->
                                  IF j <= Len(row) THEN row[j] ELSE <<"None">>],
                    rest |-> SubSeq(row, Len(names) + 1, Len(row))]
  IN [fieldnames |-> names,
      rows |-> [j \in 1..(Len(all) - 1) |-> Dict(all[j + 1])]]

\* with open(path, 'r', encoding='utf-8') as f: csv.DictReader(f)
ReadTextMode(bytes) == DictReader(UniversalNewlines(Utf8Decode(bytes)))

\* with open(path, 'r', encoding='utf-8', newline='') as f: csv.DictReader(f)
ReadNoTranslation(bytes) == DictReader(Utf8Decode(bytes))

MaxNameLen == 2
MaxRows == 2

NameChars == {"a", COMMA, QUOTE, CR, LF, EAcute}

Places == {<<256093, 851376>>, <<256100, -5000>>, <<300000, 0>>}

WrittenPois ==
  {[name |-> n, category |-> "restaurant", latitude |-> p[1], longitude |-> p[2],
    description |-> d] :
     n \in SeqsUpTo(NameChars, MaxNameLen), p \in Places, d \in {<<>>, <<"Amenity: cafe">>}}

WriteInit ==
  /\ wpois \in SeqsUpTo(WrittenPois, MaxRows)
  /\ csvfile = <<>> /\ readback = <<>> /\ wstep = 0

\* write_csv(test_pois, test_csv_path)
CallWriteCsv ==
  /\ wstep = 0
  /\ csvfile' = write_csv(wpois)
  /\ wstep' = 1
  /\ UNCHANGED <<wpois, readback, runvars, catvars, monovars, parsevars>>

\* The file is read back as the tests and process_geofabrik_data read a
\* file the same writer wrote: in text mode, through a DictReader.
ReadBack ==
  /\ wstep = 1
  /\ readback' = ReadTextMode(csvfile)
  /\ wstep' = 2
  /\ UNCHANGED <<wpois, csvfile, runvars, catvars, monovars, parsevars>>

WriteNext ==
  \/ CallWriteCsv
  \/ ReadBack

InitWrite == WriteInit /\ RunIdle /\ CatIdle /\ MonoIdle /\ ParseIdle

SpecWrite == InitWrite /\ [][WriteNext]_vars

\* What a reader's result has to be for the records ps to have come back.
CameBack(rb, ps) ==
  /\ rb.fieldnames = [j \in 1..Len(fieldnames) |-> <<fieldnames[j]>>]
  /\ Len(rb.rows) = Len(ps)
  /\ \A j \in 1..Len(ps) :
       /\ rb.rows[j].rest = <<>>
       /\ rb.rows[j].fields[1] = ps[j].name
       /\ rb.rows[j].fields[2] = <<ps[j].category>>
       /\ ParseFloat(rb.rows[j].fields[3]) = ps[j].latitude
       /\ ParseFloat(rb.rows[j].fields[4]) = ps[j].longitude
       /\ rb.rows[j].fields[5] = ps[j].description

\* C24: the records written by write_csv and read back give the header
\* name, category, latitude, longitude, description and one row per
\* record in order, each field equal to the written one.
C24_RoundTrip == wstep = 2 => CameBack(readback, wpois)

\* The file itself holds every record: read without newline translation
\* the records come back as written.
FileHoldsRecords == wstep >= 1 => CameBack(ReadNoTranslation(csvfile), wpois)

\* Read in text mode, the records come back when no text field holds a
\* carriage return.
RoundTripWithoutCR ==
  (wstep = 2 /\ \A j \in 1..Len(wpois) : \A k \in 1..Len(wpois[j].name) :
                  wpois[j].name[k] # CR)
    => CameBack(readback, wpois)

\* A node element with both coordinates.
IsCoordNode(el) == el.tag = "node" /\ el.lat.kind = "num" /\ el.lon.kind = "num"

\* The tags of an element as its extractor reads them from the element
\* alone: the text-tree extractors skip a tag with an empty value.
OwnTags(ex, el) ==
  IF ex = "pbf" THEN el.tags
  ELSE [k \in {x \in DOMAIN el.tags : el.tags[x] # ""} |-> el.tags[k]]

OwnCategory(ex, el) ==
  IF ex = "csv" THEN categorize_poi(OwnTags(ex, el)) ELSE categorize_poi_xml(OwnTags(ex, el))

OwnDescription(ex, el) ==
  IF ex = "csv" THEN CsvDescription(OwnTags(ex, el)) ELSE get_description_xml(OwnTags(ex, el))

SameCoordinates(r, el) == r.latitude = el.lat.val /\ r.longitude = el.lon.val

FirstN(q, n) == IF n >= Len(q) THEN q ELSE SubSeq(q, 1, n)

\* C12: every record of a text-tree extractor has the coordinates of a node
\* element of the document that has both lat and lon, and the category and
\* the description of that same element's tags.
C12_RecordFromOneNode ==
  extractor \in {"xml", "csv"} =>
    \A k \in 1..Len(records) : \E j \in 1..Len(pdoc) :
      /\ IsCoordNode(pdoc[j])
      /\ SameCoordinates(records[k], pdoc[j])
      /\ records[k].category = OwnCategory(extractor, pdoc[j])
      /\ records[k].description = OwnDescription(extractor, pdoc[j])

\* C13: every record of parse_osm_xml and of POIHandler.node has its
\* latitude in [-90, 90] and its longitude in [-180, 180].
C13_CoordinatesInRange ==
  extractor \in {"xml", "pbf"} =>
    \A k \in 1..Len(records) :
      /\ -90 <= records[k].latitude /\ records[k].latitude <= 90
      /\ -180 <= records[k].longitude /\ records[k].longitude <= 180

\* What the extractor returns for the same document without a box and
\* without a cap.
Unboxed ==
  IF extractor = "xml" THEN parse_osm_xml(Doc("osm", pdoc, FALSE), <<>>, 0)
  ELSE parse_osm_pbf(Doc("pbf", pdoc, FALSE), <<>>, 0).pois

\* C14: with a box the extractor returns exactly the records it returns
\* without one that lie inside the box, bounds inclusive (up to the cap), so
\* every record lies inside the box.
C14_BoxIsInclusiveFilter ==
  (extractor \in {"xml", "pbf"} /\ pbounds # <<>>) =>
    LET Inside(r) == /\ pbounds[1] <= r.latitude /\ r.latitude <= pbounds[2]
                     /\ pbounds[3] <= r.longitude /\ r.longitude <= pbounds[4]
        kept == SelectSeq(Unboxed, Inside)
    IN  /\ records = (IF pcap = 0 THEN kept ELSE FirstN(kept, pcap))
        /\ \A k \in 1..Len(records) : Inside(records[k])

\* C14 witness: with the box a node outside it was dropped and a node on
\* its boundary was returned.
C14_Witness ==
  /\ extractor \in {"xml", "pbf"} /\ pbounds = Box /\ pdoc = <<Museum, EdgeTaxi>>
  /\ Len(records) = 1 /\ records[1].latitude = 40 /\ records[1].longitude = 0

\* C15: every record of every extractor has a name that is not the empty
\* string.
C15_NameNotEmpty ==
  extractor # "" =>
    \A k \in 1..Len(records) :
      \E n \in 1..Len(records[k].name) : records[k].name[n] # ""

\* What the extractor called returns for the first n elements of the
\* document.
OfPrefix(n) ==
  LET q == SubSeq(pdoc, 1, n)
  IN  IF extractor = "xml" THEN parse_osm_xml(Doc("osm", q, FALSE), pbounds, pcap)
      ELSE IF extractor = "pbf" THEN parse_osm_pbf(Doc("pbf", q, FALSE), pbounds, pcap).pois
      ELSE CsvParse(Doc("osm", q, FALSE), pcap)

\* The element at whose end the k-th record was emitted.
Emitter(k) == pdoc[CHOOSE n \in 1..Len(pdoc) : Len(OfPrefix(n)) >= k /\ Len(OfPrefix(n - 1)) < k]

\* C16: a record of parse_osm_xml or POIHandler.node has the name tag of the
\* entity it was emitted for, or 'Unknown <Category>' when that entity has
\* no name tag; a record of parse_osm_xml of geofabrik_to_csv.py is emitted
\* only for an entity with a non-empty name tag.
C16_NamePolicyByMode ==
  /\ extractor \in {"xml", "pbf"} =>
       \A k \in 1..Len(records) :
         LET own == OwnTags(extractor, Emitter(k))
         IN  records[k].name = IF "name" \in DOMAIN own THEN <<own["name"]>>
                               ELSE <<"Unknown ", Title(records[k].category)>>
  /\ extractor = "csv" =>
       \A k \in 1..Len(records) : Get(Emitter(k).tags, "name", "") # ""

\* The name policy on documents in which every node has both coordinates.
NamePolicyOnCoordNodes ==
  (\A j \in 1..Len(pdoc) : pdoc[j].tag = "node" => IsCoordNode(pdoc[j]))
    => C16_NamePolicyByMode

Named(el) == IsCoordNode(el) /\ Get(el.tags, "name", "") # ""

NamedWithPoiTag(el) ==
  /\ Named(el)
  /\ \E k \in {"amenity", "shop", "tourism", "healthcare"} : Get(el.tags, k, "") # ""

\* The records of the named nodes of q in order; with poiTag only of those
\* that have one of the four tags.
RECURSIVE CsvRecordsOf(_, _)
CsvRecordsOf(q, poiTag) ==
  IF q = <<>> THEN <<>>
  ELSE LET el == Head(q)
           own == OwnTags("csv", el)
           rec == PoiRecord(<<Strip(own["name"])>>, categorize_poi(own), el.lat.val,
                            el.lon.val, CsvDescription(own))
           keep == IF poiTag THEN NamedWithPoiTag(el) ELSE Named(el)
       IN  (IF keep THEN <<rec>> ELSE <<>>) \o CsvRecordsOf(Tail(q), poiTag)

\* parse_osm_xml of geofabrik_to_csv.py stops after the record that makes
\* poi_count >= max_pois.
CsvLimit == IF pcap >= 1 THEN pcap ELSE 1

\* C17 as claimed: every node with both coordinates and a non-empty name is
\* kept, whatever its other tags, until the cap is reached.
C17_Original ==
  extractor = "csv" => records = FirstN(CsvRecordsOf(pdoc, FALSE), CsvLimit)

\* C17 amended: every node with both coordinates, a non-empty name and a
\* non-empty amenity, shop, tourism or healthcare tag is kept, whatever the
\* category of its tags, until the cap is reached.
C17_NamedPoiNodesKept ==
  extractor = "csv" => records = FirstN(CsvRecordsOf(pdoc, TRUE), CsvLimit)

\* C17 witness: a named node that no rule matches was kept with the category
\* 'other', next to a named node without any of the four tags.
C17_Witness ==
  /\ extractor = "csv" /\ pdoc = <<NamedOnly, NamedBench>>
  /\ Len(records) = 1 /\ records[1].category = "other"

\* ------------------------------------------------ whole runs and the cap
\* An entity that passes the coordinate check, the spatial filter and the
\* categorizer of geofabrik_to_csv_pbf.py, taken alone.
Passes(kind, el, bnds) ==
  /\ IsCoordNode(el)
  /\ -90 <= el.lat.val /\ el.lat.val <= 90 /\ -180 <= el.lon.val /\ el.lon.val <= 180
  /\ bnds # <<>> => (/\ bnds[1] <= el.lat.val /\ el.lat.val <= bnds[2]
                     /\ bnds[3] <= el.lon.val /\ el.lon.val <= bnds[4])
  /\ categorize_poi_xml(OwnTags(IF kind = "pbf" THEN "pbf" ELSE "xml", el)) # None

\* The number of such entities over all files.
RECURSIVE Available(_, _)
Available(ds, bnds) ==
  IF ds = <<>> THEN 0
  ELSE Cardinality({n \in 1..Len(Head(ds).elems) : Passes(Head(ds).kind, Head(ds).elems[n], bnds)})
       + Available(Tail(ds), bnds)

\* No file of the two runs fails: no stream is malformed and the decoder is
\* there for every .pbf file.
NoFileFails ==
  \A n \in 1..Len(docs) :
    ~docs[n].broken /\ (docs[n].kind = "pbf" => mrun.OSMIUM_AVAILABLE)

Min(a, b) == IF a <= b THEN a ELSE b

\* C20: when no file fails, main with a cap K >= 1 writes exactly min(K, A)
\* records, A the number of entities over all files that pass the coordinate
\* check, the spatial filter and the categorizer.
C20_ExactlyMinOfCapAndAvailable ==
  (counts # <<>> /\ mrun.prog = "pbf" /\ NoFileFails) =>
    \A n \in 1..2 : counts[n] = Min(caps[n], Available(docs, mrun.bounds))

\* The same on runs over files in which every node has both coordinates.
ExactlyMinOnCoordNodes ==
  (counts # <<>> /\ \A n \in 1..Len(docs) : \A m \in 1..Len(docs[n].elems) :
                      docs[n].elems[m].tag = "node" => IsCoordNode(docs[n].elems[m]))
    => C20_ExactlyMinOfCapAndAvailable

\* ------------------------------------------------- the category of a record
\* The closed set of category labels as the specification lists it.
ListedCategories ==
  {"restaurant", "hotel", "hospital", "transportation", "gas_station", "shopping",
   "recreation", "education", "tourism", "services", "other"}

\* Coordinates in the valid global range.
InGlobalRange(lat, lon) == -90 <= lat /\ lat <= 90 /\ -180 <= lon /\ lon <= 180

\* C29: in both backends of geofabrik_to_csv_pbf.py the Categorizer is
\* called only for coordinates inside the bounding box (when there is one)
\* and inside the valid global range.
C29_FilterBeforeCategorizer ==
  extractor \in {"xml", "pbf"} =>
    \A k \in 1..Len(categorized) :
      /\ pbounds # <<>> => InBounds(pbounds, categorized[k].lat, categorized[k].lon)
      /\ InGlobalRange(categorized[k].lat, categorized[k].lon)

\* The Spatial Filter does come before the Categorizer in both backends.
BoxBeforeCategorizer ==
  (extractor \in {"xml", "pbf"} /\ pbounds # <<>>) =>
    \A k \in 1..Len(categorized) :
      InBounds(pbounds, categorized[k].lat, categorized[k].lon)

\* What the extractor that ran returns for the document without a cap.
Uncapped ==
  IF extractor = "xml" THEN parse_osm_xml(Doc("osm", pdoc, FALSE), pbounds, 0)
  ELSE IF extractor = "pbf" THEN parse_osm_pbf(Doc("pbf", pdoc, FALSE), pbounds, 0).pois
  ELSE CsvParse(Doc("osm", pdoc, FALSE), Len(pdoc) + 1)

\* With a cap c >= 1 every extractor returns the first c of the records it
\* returns without a cap, in their order.
FirstCOfUncapped ==
  (extractor # "" /\ pcap >= 1) => records = FirstN(Uncapped, pcap)

\* The document without its way (and other non-node) elements.
NodesOf(q) == SelectSeq(q, LAMBDA el : el.tag = "node")

\* What the text extractor that ran returns for the document q.
TextRecords(q) ==
  IF extractor = "xml" THEN parse_osm_xml(Doc("osm", q, FALSE), pbounds, pcap)
  ELSE CsvParse(Doc("osm", q, FALSE), pcap)

\* C26: a way gives no record and its tags reach no record: the text
\* extractors return for a document what they return for its nodes alone,
\* wherever the ways stand.
C26_WayTagsNeverContribute ==
  extractor \in {"xml", "csv"} => records = TextRecords(NodesOf(pdoc))

\* With coordinates on every node, the ways of a document change nothing.
WaysIgnoredOnCoordNodes ==
  (extractor \in {"xml", "csv"}
     /\ \A j \in 1..Len(pdoc) : pdoc[j].tag = "node" => IsCoordNode(pdoc[j]))
    => records = TextRecords(NodesOf(pdoc))

====
